---- MODULE Spec2Model ----
(***************************************************************************)
(* TARR Annunciator: the cron-expression validator, the schedule           *)
(* synchroniser (update_scheduler on win64, update_crontab on deb-arm)     *)
(* and the trigger path, modelled from src/.                               *)
(*                                                                         *)
(* Text is modelled as TLA+ strings; a character is a string of length 1.  *)
(***************************************************************************)
EXTENDS Integers, Sequences, FiniteSets, Bags, TLC

VARIABLES
    cron_expr,      \* validator: the argument of validate_cron_expression
    vresult,        \* validator: what the two validators returned, or NoResult
    platform,       \* which application runs: "win64" or "deb-arm"
    cron_file,      \* json/cron.json: [exists, data]
    jobs,           \* win64: the jobs of the BackgroundScheduler
    crontab,        \* deb-arm: the user's crontab, [exists, lines]
    now,            \* the wall clock: the index of the current instant
    fired,          \* the playback calls made at the current instant (a bag)
    response,       \* the last answer of the schedule endpoint
    reapplied,      \* history: the last request posted the document already in the file
    threads,        \* the request threads inside api_schedule: [pc, cron_data, k, old]
    mp3_files,      \* the clip files that exist under MP3_DIR
    playback,       \* the playback threads started by the play_* functions
    current_announcement,   \* the global marker of app.py
    announced,      \* the last manual trigger: [path, kind, status]
    got,            \* the last answer of GET /api/schedule
    CURRENT_VOLUME, \* the global volume of app.py
    AUDIO_AVAILABLE,    \* the audio backend was found at start (deb-arm: PULSEAUDIO_AVAILABLE)
    volume_answer   \* the last answer of the volume routes

vvars == <<cron_expr, vresult>>
svars == <<platform, cron_file, jobs, crontab, now, fired, response, reapplied, threads>>
pvars == <<mp3_files, playback, current_announcement, announced>>
avars == <<CURRENT_VOLUME, AUDIO_AVAILABLE, volume_answer>>
vars == <<cron_expr, vresult, platform, cron_file, jobs, crontab, now, fired, response,
          reapplied, threads, mp3_files, playback, current_announcement, announced, got,
          CURRENT_VOLUME, AUDIO_AVAILABLE, volume_answer>>

(***************************************************************************)
(* Python string primitives used by the validator.                         *)
(***************************************************************************)
Ch(s, i) == SubSeq(s, i, i)

Digits == {"0", "1", "2", "3", "4", "5", "6", "7", "8", "9"}

DigitVal(c) ==
    CASE c = "0" -> 0 [] c = "1" -> 1 [] c = "2" -> 2 [] c = "3" -> 3
      [] c = "4" -> 4 [] c = "5" -> 5 [] c = "6" -> 6 [] c = "7" -> 7
      [] c = "8" -> 8 [] c = "9" -> 9

IsSpace(c) == c \in {" ", "\t"}

\* `c in s` for a single character c
Contains(s, c) == \E i \in 1..Len(s) : Ch(s, i) = c

\* `sub in s`
HasSub(s, sub) ==
    \E i \in 1..(Len(s) - Len(sub) + 1) : SubSeq(s, i, i + Len(sub) - 1) = sub

\* str.split(): the maximal runs of non-whitespace characters
\* the first index from i on that holds (no) whitespace, Len(s) + 1 if none
NextSpace(s, i) ==
    CHOOSE k \in i..(Len(s) + 1) :
        /\ k = Len(s) + 1 \/ IsSpace(Ch(s, k))
        /\ \A j \in i..(k - 1) : ~IsSpace(Ch(s, j))

NextWord(s, i) ==
    CHOOSE k \in i..(Len(s) + 1) :
        /\ k = Len(s) + 1 \/ ~IsSpace(Ch(s, k))
        /\ \A j \in i..(k - 1) : IsSpace(Ch(s, j))

RECURSIVE SplitWs(_, _)
SplitWs(s, i) ==
    IF i > Len(s) THEN <<>>
    ELSE <<SubSeq(s, i, NextSpace(s, i) - 1)>> \o SplitWs(s, NextWord(s, NextSpace(s, i)))

split(s) == SplitWs(s, NextWord(s, 1))

\* str.split(sep) for a one-character separator: empty pieces are kept
RECURSIVE SplitSep(_, _, _, _)
SplitSep(s, sep, i, cur) ==
    IF i > Len(s) THEN <<cur>>
    ELSE IF Ch(s, i) = sep THEN <<cur>> \o SplitSep(s, sep, i + 1, "")
         ELSE SplitSep(s, sep, i + 1, cur \o Ch(s, i))

SplitOn(s, sep) == SplitSep(s, sep, 1, "")

\* int(s): an optional sign, then one or more decimal digits; anything else
\* raises ValueError (int_ok is FALSE).  Whitespace and '_' do not occur in the
\* fields the model feeds it.
IntBody(s) ==
    IF Len(s) >= 1 /\ Ch(s, 1) \in {"+", "-"} THEN SubSeq(s, 2, Len(s)) ELSE s

int_ok(s) ==
    LET b == IntBody(s)
    IN  Len(b) >= 1 /\ \A i \in 1..Len(b) : Ch(b, i) \in Digits

RECURSIVE DigitsValue(_, _, _)
DigitsValue(b, i, acc) ==
    IF i > Len(b) THEN acc ELSE DigitsValue(b, i + 1, acc * 10 + DigitVal(Ch(b, i)))

int(s) ==
    LET v == DigitsValue(IntBody(s), 1, 0)
    IN  IF Len(s) >= 1 /\ Ch(s, 1) = "-" THEN 0 - v ELSE v

(***************************************************************************)
(* dev/deb-arm/validate_cron.py                                            *)
(***************************************************************************)
\* (a variant of StepBranchOk that lets a step of 0 through)
StepBranchOk_ZeroStep(base_int, step_int, min_val, max_val) ==
    min_val <= base_int /\ base_int <= max_val /\ step_int >= 0

\* line 29: min_val <= base_int <= max_val and step_int > 0
StepBranchOk(base_int, step_int, min_val, max_val) ==
    min_val <= base_int /\ base_int <= max_val /\ step_int > 0

\* (a variant of RangeBranchOk that forgets the upper end of the domain)
RangeBranchOk_NoMax(start_int, end_int, min_val, max_val) ==
    min_val <= start_int /\ start_int <= end_int

\* line 36: min_val <= start_int <= end_int <= max_val
RangeBranchOk(start_int, end_int, min_val, max_val) ==
    min_val <= start_int /\ start_int <= end_int /\ end_int <= max_val

\* line 43: min_val <= val <= max_val
LiteralBranchOk(val, min_val, max_val) == min_val <= val /\ val <= max_val

\* Which branch of validate_field a value takes: the tests are made in the
\* order of the source, '*' then '/' then '-' then ','.
FieldBranch(value) ==
    IF value = "*" THEN "wildcard"
    ELSE IF Contains(value, "/") THEN "step"
    ELSE IF Contains(value, "-") THEN "range"
    ELSE IF Contains(value, ",") THEN "list"
    ELSE "literal"

\* validate_field: "True", "False", or "ValueError" when an exception leaves
\* validate_field (the unpacking of line 23 is outside the try of line 26).
RECURSIVE validate_field(_, _, _)
RECURSIVE all_validate_field(_, _, _, _)

validate_field(value, min_val, max_val) ==
    LET br == FieldBranch(value) IN
    IF br = "wildcard" THEN "True"
    ELSE IF br = "step" THEN
        LET p == SplitOn(value, "/") IN
        IF Len(p) # 2 THEN "ValueError"
        ELSE LET base_isstar == (p[1] = "*")
                 step == p[2]
             IN  IF ~(base_isstar \/ int_ok(p[1])) \/ ~int_ok(step) THEN "False"
                 ELSE IF StepBranchOk(IF base_isstar THEN min_val ELSE int(p[1]),
                                      int(step), min_val, max_val)
                      THEN "True" ELSE "False"
    ELSE IF br = "range" THEN
        LET p == SplitOn(value, "-") IN
        IF Len(p) # 2 THEN "False"
        ELSE IF ~int_ok(p[1]) \/ ~int_ok(p[2]) THEN "False"
        ELSE IF RangeBranchOk(int(p[1]), int(p[2]), min_val, max_val)
             THEN "True" ELSE "False"
    ELSE IF br = "list" THEN
        all_validate_field(SplitOn(value, ","), 1, min_val, max_val)
    ELSE IF ~int_ok(value) THEN "False"
         ELSE IF LiteralBranchOk(int(value), min_val, max_val)
              THEN "True" ELSE "False"

\* all(validate_field(v.strip(), ...) for v in value.split(',')): stops at the
\* first falsy element; an exception of an element propagates.
all_validate_field(parts, i, min_val, max_val) ==
    IF i > Len(parts) THEN "True"
    ELSE LET r == validate_field(parts[i], min_val, max_val)
         IN  IF r = "True" THEN all_validate_field(parts, i + 1, min_val, max_val)
             ELSE r

\* lines 47-56: the five fields, their domains and the order they are checked in
FieldDomains ==
    << [name |-> "minute",      lo |-> 0, hi |-> 59],
       [name |-> "hour",        lo |-> 0, hi |-> 23],
       [name |-> "day",         lo |-> 1, hi |-> 31],
       [name |-> "month",       lo |-> 1, hi |-> 12],
       [name |-> "day_of_week", lo |-> 0, hi |-> 7] >>

\* (a variant of FieldCountOk that only rejects too few fields)
FieldCountOk_AtLeast(n) == n >= 5

\* line 13: len(parts) != 5
FieldCountOk(n) == n = 5

\* The result of a validator: ok, the kind of message ("count", a field name,
\* "exception" for the handler of line 60, "valid") and how many fields were
\* handed to validate_field before it returned.
RECURSIVE CheckFields(_, _)
CheckFields(parts, k) ==
    IF k > 5 THEN [ok |-> TRUE, msg |-> "valid", checked |-> 5]
    ELSE LET r == validate_field(parts[k], FieldDomains[k].lo, FieldDomains[k].hi)
         IN  IF r = "ValueError" THEN [ok |-> FALSE, msg |-> "exception", checked |-> k]
             ELSE IF r = "False"
                  THEN [ok |-> FALSE, msg |-> FieldDomains[k].name, checked |-> k]
                  ELSE CheckFields(parts, k + 1)

validate_cron_expression(expr) ==
    LET parts == split(expr) IN
    IF ~FieldCountOk(Len(parts))
    THEN [ok |-> FALSE, msg |-> "count", checked |-> 0]
    ELSE CheckFields(parts, 1)

(***************************************************************************)
(* apscheduler.triggers.cron.CronTrigger, as win64 constructs it            *)
(* (win64/app.py 300-306, dev/win64/validate_cron.py 19-25): APScheduler    *)
(* 3.x.  A field is split on ',' first; each element is '*', '*/n', 'a',    *)
(* 'a-b', 'a/n' or 'a-b/n' with unsigned decimal numbers.  day_of_week      *)
(* counts from Monday: 0 = Monday ... 6 = Sunday.  Month and weekday names  *)
(* and the day field's 'last' forms are left out: no input of the model     *)
(* uses them.                                                               *)
(***************************************************************************)
DigitsOnly(s) == Len(s) >= 1 /\ \A i \in 1..Len(s) : Ch(s, i) \in Digits

ApDomains ==
    << [name |-> "minute",      lo |-> 0, hi |-> 59],
       [name |-> "hour",        lo |-> 0, hi |-> 23],
       [name |-> "day",         lo |-> 1, hi |-> 31],
       [name |-> "month",       lo |-> 1, hi |-> 12],
       [name |-> "day_of_week", lo |-> 0, hi |-> 6] >>

\* An element parsed by the regular expressions of AllExpression and
\* RangeExpression: [ok, star, first, haslast, last, hasstep, step].
ApBad ==
    [ok |-> FALSE, star |-> FALSE, first |-> 0, haslast |-> FALSE,
     last |-> 0, hasstep |-> FALSE, step |-> 0]

\* sp: the element split at '/', rp: its head split at '-'
ApParsed(sp, rp) ==
    IF Len(sp) > 2 \/ (Len(sp) = 2 /\ ~DigitsOnly(sp[2])) THEN ApBad
    ELSE IF sp[1] = "*"
         THEN [ok |-> TRUE, star |-> TRUE, first |-> 0, haslast |-> FALSE,
               last |-> 0, hasstep |-> Len(sp) = 2,
               step |-> IF Len(sp) = 2 THEN int(sp[2]) ELSE 0]
    ELSE IF Len(rp) > 2 \/ \E i \in 1..Len(rp) : ~DigitsOnly(rp[i]) THEN ApBad
    ELSE [ok |-> TRUE, star |-> FALSE, first |-> int(rp[1]),
          haslast |-> (Len(rp) = 2 \/ Len(sp) = 1),
          last |-> int(rp[Len(rp)]),
          hasstep |-> Len(sp) = 2,
          step |-> IF Len(sp) = 2 THEN int(sp[2]) ELSE 0]

ApHead(sp) == ApParsed(sp, SplitOn(sp[1], "-"))

ApParse(e) == ApHead(SplitOn(e, "/"))

\* The constructors and validate_range: a step of 0, first > last, a value
\* outside the field's range or a step larger than the range raise ValueError.
ApRangeOk(x, lo, hi) ==
    /\ x.ok
    /\ x.hasstep => (x.step > 0 /\ x.step <= hi - lo)
    /\ ~x.star =>
         /\ x.haslast => x.first <= x.last
         /\ x.first >= lo
         /\ x.haslast => x.last <= hi
         /\ x.hasstep =>
              x.step <= (IF x.haslast /\ x.last # 0 THEN x.last ELSE hi) - x.first

ApExprOk(e, lo, hi) == ApRangeOk(ApParse(e), lo, hi)

ApFieldOk(f, lo, hi) ==
    LET es == SplitOn(f, ",") IN \A i \in 1..Len(es) : ApExprOk(es[i], lo, hi)

\* get_next_value: the values an accepted element matches
ApRangeMatch(x, lo, hi, v) ==
    IF x.star THEN (~x.hasstep \/ (v - lo) % x.step = 0)
    ELSE /\ v >= x.first
         /\ v <= (IF x.haslast THEN x.last ELSE hi)
         /\ (~x.hasstep \/ (v - x.first) % x.step = 0)

ApExprMatch(e, lo, hi, v) == ApRangeMatch(ApParse(e), lo, hi, v)

ApFieldMatch(f, lo, hi, v) ==
    LET es == SplitOn(f, ",") IN \E i \in 1..Len(es) : ApExprMatch(es[i], lo, hi, v)

\* CronTrigger(minute=, hour=, day=, month=, day_of_week=) raises nothing
CronTrigger_ok(parts) ==
    \A k \in 1..5 : ApFieldOk(parts[k], ApDomains[k].lo, ApDomains[k].hi)

(***************************************************************************)
(* dev/win64/validate_cron.py                                              *)
(***************************************************************************)
validate_cron_expression_win(expr) ==
    LET parts == split(expr) IN
    IF ~FieldCountOk(Len(parts))
    THEN [ok |-> FALSE, msg |-> "count", checked |-> 0]
    ELSE IF CronTrigger_ok(parts)
         THEN [ok |-> TRUE, msg |-> "valid", checked |-> 5]
         ELSE [ok |-> FALSE, msg |-> "exception", checked |-> 5]

(***************************************************************************)
(* The inputs of the validators: an input is drawn, then both validators   *)
(* are applied to it.                                                      *)
(***************************************************************************)
MaxListLen == 2     \* elements of a comma-list in the generated fields
MaxFields == 6      \* fields of the generated field-count inputs

NoResult ==
    [arm |-> [ok |-> FALSE, msg |-> "none", checked |-> 0],
     win |-> [ok |-> FALSE, msg |-> "none", checked |-> 0]]

DigitStr == <<"0", "1", "2", "3", "4", "5", "6", "7", "8", "9">>

\* str(n) of a natural number
RECURSIVE ToStr(_)
ToStr(n) == IF n < 10 THEN DigitStr[n + 1] ELSE ToStr(n \div 10) \o DigitStr[(n % 10) + 1]

\* sep.join(parts)
RECURSIVE Join(_, _)
Join(parts, sep) ==
    IF Len(parts) = 0 THEN ""
    ELSE IF Len(parts) = 1 THEN parts[1]
    ELSE parts[1] \o sep \o Join(Tail(parts), sep)

\* The numbers the generated fields of position k are built from: both ends
\* of the domain and the numbers just outside it.
GenVals(k) ==
    {FieldDomains[k].lo, FieldDomains[k].hi, FieldDomains[k].hi + 1}
    \cup (IF FieldDomains[k].lo > 0 THEN {FieldDomains[k].lo - 1} ELSE {})

GenLits(k) == {ToStr(v) : v \in GenVals(k)}

GenSteps == {"0", "1", "15", "-1", "+2", "x", ""}

GenOdd == {"", "x", "1/2/3", "1-2-3", "-1", "1-5/2", "*/2/", "**", "+1"}

GenAtoms(k) ==
    {"*"} \cup GenLits(k) \cup GenOdd
    \cup {a \o "-" \o b : a \in GenLits(k), b \in GenLits(k)}
    \cup {b \o "/" \o st : b \in {"*"} \cup GenLits(k), st \in GenSteps}

GenListElems(k) ==
    {"*", "", "*/15", ToStr(FieldDomains[k].lo), ToStr(FieldDomains[k].hi + 1),
     ToStr(FieldDomains[k].lo) \o "-" \o ToStr(FieldDomains[k].hi)}

GenLists(k) ==
    UNION {{Join(es, ",") : es \in [1..n -> GenListElems(k)]} : n \in 2..MaxListLen}

GenFillers == {"*", "1", "99"}

\* Five fields: f at position k, g everywhere else
FiveFields(k, f, g) == Join([i \in 1..5 |-> IF i = k THEN f ELSE g], " ")

SingleFieldInputs ==
    {FiveFields(k, f, g) :
        k \in 1..5, f \in UNION {GenAtoms(j) \cup GenLists(j) : j \in 1..5},
        g \in GenFillers}

FieldCountInputs ==
    {lead \o Join([i \in 1..n |-> g], sep) \o trail :
        n \in 0..MaxFields, g \in {"*", "99"}, sep \in {" ", "  ", "\t"},
        lead \in {"", " "}, trail \in {"", " "}}

ExampleInputs ==
    {"1-3,5 * * * *", "*/15,7 * * * *", "0 8 * * 1-5", "99 8 * * *",
     "*/15 * * * *", "0 12 * * 1-5", "0 8 * * 0", "0 8 * * 7", "0 24 * * *",
     "0 8 * 13 *", "60 * * * *"}

ValidatorInputs == SingleFieldInputs \cup FieldCountInputs \cup ExampleInputs


(***************************************************************************)
(* The schedule document (json/cron.json).  A JSON value is kept in one    *)
(* uniform shape: isdict says whether it is a mapping at all.              *)
(***************************************************************************)
Kinds == <<"station", "promo", "safety">>

\* the key of a category list: '<kind>_announcements'
ListKey(kind) == kind \o "_announcements"

NoLists == [k \in {"station", "promo", "safety"} |-> <<>>]

\* a mapping with the given category lists (keys: which of them are present)
Doc(keys, station, promo, safety) ==
    [isdict |-> TRUE, keys |-> keys,
     lists |-> [k \in {"station", "promo", "safety"} |->
                  IF k = "station" THEN station
                  ELSE IF k = "promo" THEN promo ELSE safety]]

AllKeys == {"station", "promo", "safety"}
EmptyDoc == Doc(AllKeys, <<>>, <<>>, <<>>)
ListDoc == [isdict |-> FALSE, keys |-> {}, lists |-> NoLists]

AbsentFile == [exists |-> FALSE, data |-> EmptyDoc]
NoCrontab == [exists |-> FALSE, lines |-> <<>>]
NoResponse == [status |-> 0, success |-> FALSE, active_jobs |-> 0]

\* cron_data.get('<kind>_announcements', [])
GetList(doc, kind) == IF kind \in doc.keys THEN doc.lists[kind] ELSE <<>>

Entry(enabled, cron, args) ==
    [isdict |-> TRUE, enabled |-> enabled, cron |-> cron, args |-> args]
NotADict == [isdict |-> FALSE, enabled |-> FALSE, cron |-> "", args |-> <<>>]

\* the entries of a document in the order the three loops visit them
RECURSIVE Indexed(_, _, _)
Indexed(kind, list, i) ==
    IF i > Len(list) THEN <<>>
    ELSE <<[kind |-> kind, i |-> i - 1, item |-> list[i]]>> \o Indexed(kind, list, i + 1)

Flat(doc) ==
    Indexed("station", GetList(doc, "station"), 1)
    \o Indexed("promo", GetList(doc, "promo"), 1)
    \o Indexed("safety", GetList(doc, "safety"), 1)

(***************************************************************************)
(* The sequence player's entry points (app.py of both variants).           *)
(***************************************************************************)
\* direction and destination change places
station_sequence_Swapped(args) ==
    << "chime.mp3",
       "train/" \o args[1] \o ".mp3",
       "destination/" \o args[3] \o ".mp3",
       "direction/" \o args[2] \o ".mp3",
       "track/" \o args[4] \o ".mp3" >>

\* play_station_announcement: audio_sequence, relative to MP3_DIR
station_sequence(args) ==
    << "chime.mp3",
       "train/" \o args[1] \o ".mp3",
       "direction/" \o args[2] \o ".mp3",
       "destination/" \o args[3] \o ".mp3",
       "track/" \o args[4] \o ".mp3" >>

\* play_promo: promo_file
promo_sequence(args) == << "promo/" \o args[1] >>

\* play_safety: safety_file
safety_sequence(args) == << "safety/safety_" \o args[1] \o ".mp3" >>

PlayFunc(kind) ==
    IF kind = "station" THEN "play_station_announcement"
    ELSE IF kind = "promo" THEN "play_promo" ELSE "play_safety"

\* what the play_* function of a kind hands to its playback thread
Resolve(kind, args) ==
    IF kind = "station" THEN station_sequence(args)
    ELSE IF kind = "promo" THEN promo_sequence(args) ELSE safety_sequence(args)

(***************************************************************************)
(* The wall clock.  Instant 0 is Sunday 1 November 2026 07:59; the odd     *)
(* instants are 08:00 and the even ones 07:59 of successive days.          *)
(* weekday is datetime.weekday(): Monday = 0 ... Sunday = 6.               *)
(***************************************************************************)
MaxTick == 3

Instant(t) ==
    [minute  |-> IF t % 2 = 0 THEN 59 ELSE 0,
     hour    |-> IF t % 2 = 0 THEN 7 ELSE 8,
     day     |-> 1 + (t \div 2),
     month   |-> 11,
     weekday |-> (6 + (t \div 2)) % 7]

NoRun == MaxTick + 1

(***************************************************************************)
(* win64: update_scheduler and the BackgroundScheduler.                    *)
(***************************************************************************)
\* CronTrigger: every field must match (day_of_week against weekday())
InstantFields(inst) == <<inst.minute, inst.hour, inst.day, inst.month, inst.weekday>>

FieldsMatch(parts, vals) ==
    \A k \in 1..5 : ApFieldMatch(parts[k], ApDomains[k].lo, ApDomains[k].hi, vals[k])

TriggerMatch(parts, inst) == FieldsMatch(parts, InstantFields(inst))

\* trigger.get_next_fire_time: the first instant after t the trigger matches
Earliest(later) ==
    IF later = {} THEN NoRun ELSE CHOOSE u \in later : \A w \in later : u <= w

NextRun(parts, t) == Earliest({u \in (t + 1)..MaxTick : TriggerMatch(parts, Instant(u))})

\* f'station_{i}', f'promo_{i}', f'safety_{i}'
JobId(kind, i) == kind \o "_" \o ToStr(i)

\* item.get('enabled')
ItemEnabled(item) == item.enabled

\* lines 294-310: the cron text is split, must have 5 parts, and CronTrigger
\* must accept them; anything raised inside the try skips the entry
EntrySchedulable(item) ==
    LET cron_parts == split(item.cron)
    IN  Len(cron_parts) = 5 /\ CronTrigger_ok(cron_parts)

\* scheduler.add_job: raises ConflictingIdError (caught by the caller's
\* except) when the id is taken
Job(id, func, args, parts, t) ==
    [id |-> id, func |-> func, args |-> args, parts |-> parts,
     next_run |-> NextRun(parts, t)]

AddOrConflict(js, j) == IF \E o \in js : o.id = j.id THEN js ELSE js \cup {j}

add_job(js, e, t) ==
    AddOrConflict(js, Job(JobId(e.kind, e.i), PlayFunc(e.kind), e.item.args,
                          split(e.item.cron), t))

\* the three loops over the entries, from entry k on: [jobs, raised].  An
\* item that is no mapping raises AttributeError at item.get, outside the try.
RECURSIVE AddJobs(_, _, _, _)
AddJobs(flat, k, js, t) ==
    IF k > Len(flat) THEN [jobs |-> js, raised |-> FALSE]
    ELSE LET e == flat[k] IN
         IF ~e.item.isdict THEN [jobs |-> js, raised |-> TRUE]
         ELSE IF ItemEnabled(e.item) /\ EntrySchedulable(e.item)
              THEN AddJobs(flat, k + 1, add_job(js, e, t), t)
              ELSE AddJobs(flat, k + 1, js, t)

\* scheduler.get_jobs() without the next run times
JobKeys(js) == {[id |-> j.id, func |-> j.func, args |-> j.args, parts |-> j.parts] : j \in js}

\* scheduler.remove_all_jobs()
remove_all_jobs(js) == {}

\* update_scheduler as a whole: [jobs, raised]
update_scheduler(file, js, t) ==
    IF ~file.exists THEN [jobs |-> js, raised |-> FALSE]
    ELSE IF ~file.data.isdict THEN [jobs |-> remove_all_jobs(js), raised |-> TRUE]
    ELSE AddJobs(Flat(file.data), 1, remove_all_jobs(js), t)


(***************************************************************************)
(* deb-arm: update_crontab, crontab(1) and the cron daemon.                *)
(* A crontab line is [txt, kind, args]: txt is the text of the line (the   *)
(* command is shortened to its program, its mode flag and its redirection) *)
(* and kind/args are the --station/--promo/--safety arguments the command  *)
(* carries ("" for a line that is not the annunciator's).                  *)
(***************************************************************************)
TarrHeader == "# TARR Annunciator scheduled announcements"
LogName == "tarr-announcer.log"

\* str.strip()
RECURSIVE LStrip(_)
LStrip(s) == IF Len(s) > 0 /\ IsSpace(Ch(s, 1)) THEN LStrip(SubSeq(s, 2, Len(s))) ELSE s
RECURSIVE RStrip(_)
RStrip(s) ==
    IF Len(s) > 0 /\ IsSpace(Ch(s, Len(s))) THEN RStrip(SubSeq(s, 1, Len(s) - 1)) ELSE s
Strip(s) == LStrip(RStrip(s))

\* str.startswith
StartsWith(s, pre) == Len(s) >= Len(pre) /\ SubSeq(s, 1, Len(pre)) = pre

TextLine(txt) == [txt |-> txt, kind |-> "", args |-> <<>>]

\* lines 386-387, 397-398, 408-409: f"{cron_expr} {command}"
CommandText(kind) ==
    "cd /opt/tarr && python3 app.py --" \o kind \o " >> /var/log/tarr-announcer.log 2>&1"

CronLine(e) ==
    [txt |-> e.item.cron \o " " \o CommandText(e.kind), kind |-> e.kind, args |-> e.item.args]

\* lines 376-412: cron_entries, [entries, raised]; no cron expression is
\* validated here
RECURSIVE CronEntries(_, _, _)
CronEntries(flat, k, acc) ==
    IF k > Len(flat) THEN [entries |-> acc, raised |-> FALSE]
    ELSE LET e == flat[k] IN
         IF ~e.item.isdict THEN [entries |-> acc, raised |-> TRUE]
         ELSE IF ItemEnabled(e.item)
              THEN CronEntries(flat, k + 1, Append(acc, CronLine(e)))
              ELSE CronEntries(flat, k + 1, acc)

\* result.stdout.strip().split('\n') of `crontab -l`
RECURSIVE DropBlankHead(_)
DropBlankHead(ls) ==
    IF Len(ls) > 0 /\ Strip(ls[1].txt) = "" THEN DropBlankHead(Tail(ls)) ELSE ls
RECURSIVE DropBlankTail(_)
DropBlankTail(ls) ==
    IF Len(ls) > 0 /\ Strip(ls[Len(ls)].txt) = ""
    THEN DropBlankTail(SubSeq(ls, 1, Len(ls) - 1)) ELSE ls

StdoutLines(ls) ==
    LET core == DropBlankTail(DropBlankHead(ls)) IN
    IF Len(core) = 0 THEN <<TextLine("")>>
    ELSE [i \in 1..Len(core) |->
            IF i = 1 /\ i = Len(core) THEN [core[i] EXCEPT !.txt = Strip(@)]
            ELSE IF i = 1 THEN [core[i] EXCEPT !.txt = LStrip(@)]
            ELSE IF i = Len(core) THEN [core[i] EXCEPT !.txt = RStrip(@)]
            ELSE core[i]]

\* the loop without its tests: every line of the old crontab is kept
FilterLines_KeepAll(lines, i, skip_next, acc) == acc \o SubSeq(lines, i, Len(lines))

\* lines 423-434: the loop that filters the annunciator's lines out
RECURSIVE FilterLines(_, _, _, _)
FilterLines(lines, i, skip_next, acc) ==
    IF i > Len(lines) THEN acc
    ELSE LET line == lines[i].txt IN
         IF HasSub(line, "# TARR Annunciator")
         THEN FilterLines(lines, i + 1, TRUE, acc)
         ELSE IF skip_next /\ (Strip(line) = "" \/ StartsWith(line, "#"))
         THEN FilterLines(lines, i + 1, skip_next, acc)
         ELSE LET skip2 == IF skip_next /\ ~StartsWith(Strip(line), "#")
                           THEN FALSE ELSE skip_next
              IN  IF ~skip2 /\ ~HasSub(line, LogName)
                  THEN FilterLines(lines, i + 1, skip2, Append(acc, lines[i]))
                  ELSE FilterLines(lines, i + 1, skip2, acc)

\* lines 418-441: the text written to the temporary file
NewCrontabLines(tab, entries) ==
    LET filtered == IF tab.exists THEN FilterLines(StdoutLines(tab.lines), 1, FALSE, <<>>)
                    ELSE <<>>
    IN  IF \E i \in 1..Len(filtered) : Strip(filtered[i].txt) # ""
        THEN filtered \o entries ELSE entries

\* crontab(1) and cron(8) of Debian (Vixie cron): an element is '*', '*/n',
\* 'a', 'a-b' or 'a-b/n'; day of week runs 0..7 and 7 is Sunday like 0.
VixieDomains ==
    << [lo |-> 0, hi |-> 59], [lo |-> 0, hi |-> 23], [lo |-> 1, hi |-> 31],
       [lo |-> 1, hi |-> 12], [lo |-> 0, hi |-> 7] >>

VixieRangeOk(x, lo, hi) ==
    /\ x.ok
    /\ x.hasstep => x.step > 0
    /\ ~x.star =>
         /\ x.haslast
         /\ lo <= x.first /\ x.first <= x.last /\ x.last <= hi

VixieExprOk(e, lo, hi) == VixieRangeOk(ApParse(e), lo, hi)

VixieFieldOk(f, lo, hi) ==
    LET es == SplitOn(f, ",") IN \A i \in 1..Len(es) : VixieExprOk(es[i], lo, hi)

VixieRangeMatch(x, lo, v) ==
    IF x.star THEN (~x.hasstep \/ (v - lo) % x.step = 0)
    ELSE x.first <= v /\ v <= x.last /\ (~x.hasstep \/ (v - x.first) % x.step = 0)

VixieExprMatch(e, lo, v) == VixieRangeMatch(ApParse(e), lo, v)

VixieFieldMatch(f, lo, v) ==
    LET es == SplitOn(f, ",") IN \E i \in 1..Len(es) : VixieExprMatch(es[i], lo, v)

\* a blank line, a comment, or five time fields and a command
TimeSpecOk(parts) ==
    /\ Len(parts) >= 6
    /\ \A k \in 1..5 : VixieFieldOk(parts[k], VixieDomains[k].lo, VixieDomains[k].hi)

IsComment(stripped) == stripped = "" \/ StartsWith(stripped, "#")

CrontabLineOk(txt) == IsComment(Strip(txt)) \/ TimeSpecOk(split(txt))

\* `crontab file`: the file is installed only if every line of it parses
\* ("errors in crontab file, can't install" otherwise, returncode 1)
CrontabInstall(tab, lines) ==
    IF \A i \in 1..Len(lines) : CrontabLineOk(lines[i].txt)
    THEN [exists |-> TRUE, lines |-> lines]
    ELSE tab

\* update_crontab as a whole: [crontab, raised]
WriteCrontab(tab, r) ==
    IF r.raised THEN [crontab |-> tab, raised |-> TRUE]
    ELSE [crontab |-> CrontabInstall(tab, NewCrontabLines(tab, r.entries)),
          raised |-> FALSE]

update_crontab(file, tab) ==
    IF ~file.exists THEN [crontab |-> tab, raised |-> FALSE]
    ELSE IF ~file.data.isdict THEN [crontab |-> tab, raised |-> TRUE]
    ELSE WriteCrontab(tab, CronEntries(Flat(file.data), 1, <<TextLine(TarrHeader)>>))

\* get_cron_status: tarr_jobs, as the indices of the lines in `crontab -l`
TarrJobLines(tab) ==
    IF ~tab.exists THEN <<>>
    ELSE LET ls == StdoutLines(tab.lines) IN
         SelectSeq([i \in 1..Len(ls) |-> i],
                   LAMBDA i : HasSub(ls[i].txt, LogName)
                              /\ ~StartsWith(Strip(ls[i].txt), "#"))

get_cron_status_count(tab) == Len(TarrJobLines(tab))

\* cron(8): does a line run at an instant?  Day of month and day of week are
\* or-ed when neither is a '*' field.
CronDow(inst) == (inst.weekday + 1) % 7

\* the values of the five fields at an instant; Sunday is both 0 and 7
DaemonFields(inst) ==
    << {inst.minute}, {inst.hour}, {inst.day}, {inst.month},
       IF CronDow(inst) = 0 THEN {0, 7} ELSE {CronDow(inst)} >>

\* which of the five fields of a line match
FieldHits(parts, vals) ==
    [k \in 1..5 |-> \E v \in vals[k] : VixieFieldMatch(parts[k], VixieDomains[k].lo, v)]

EntryDue(parts, hit) ==
    /\ hit[1] /\ hit[2] /\ hit[4]
    /\ IF StartsWith(parts[3], "*") \/ StartsWith(parts[5], "*")
       THEN hit[3] /\ hit[5] ELSE hit[3] \/ hit[5]

LineDue(parts, inst) == Len(parts) >= 6 /\ EntryDue(parts, FieldHits(parts, DaemonFields(inst)))

DaemonRuns(txt, inst) == ~IsComment(Strip(txt)) /\ LineDue(split(txt), inst)

\* the command of an annunciator line starts app.py (handle_cli) only when the
\* cron expression had five fields, so that the sixth word is the program
RunsApp(line) == line.kind # "" /\ split(line.txt)[6] = "cd"

(***************************************************************************)
(* The schedule documents that are posted.                                 *)
(***************************************************************************)
StArgs == <<"1", "westbound", "goodwin_station", "1">>

sA   == Entry(TRUE,  "0 8 * * 1-5", StArgs)
sB   == Entry(FALSE, "0 8 * * 1-5", StArgs)
sBad == Entry(TRUE,  "99 8 * * *",  StArgs)
s0   == Entry(TRUE,  "0 8 * * 0",   StArgs)
s7   == Entry(TRUE,  "0 8 * * 7",   StArgs)
s4   == Entry(TRUE,  "0 8 * *",     StArgs)
pOk  == Entry(TRUE,  "0 8 * * *",   <<"promo1.mp3">>)
fOk  == Entry(TRUE,  "59 7 * * *",  <<"english">>)

DocA == Doc(AllKeys, <<sA>>, <<>>, <<>>)
DocB == Doc(AllKeys, <<sB>>, <<>>, <<>>)
DocC == Doc(AllKeys, <<sBad>>, <<pOk>>, <<>>)
Doc0 == Doc(AllKeys, <<s0>>, <<>>, <<>>)
Doc7 == Doc(AllKeys, <<s7>>, <<>>, <<>>)
Doc4 == Doc(AllKeys, <<s4>>, <<pOk>>, <<>>)
DocAll == Doc(AllKeys, <<sB, sA>>, <<pOk>>, <<fOk>>)
DocBadItem == Doc(AllKeys, <<sB>>, <<>>, <<NotADict>>)
DocPromoOnly == Doc({"promo"}, <<>>, <<pOk>>, <<>>)
DocBC == Doc(AllKeys, <<sB, sBad>>, <<>>, <<>>)

DocPool ==
    {EmptyDoc, DocA, DocB, DocC, Doc0, Doc7, Doc4, DocAll, DocBadItem, DocPromoOnly,
     DocBC, ListDoc}

\* request.get_json(): with or without a 'schedule' member
Bodies ==
    {[has_schedule |-> TRUE, schedule |-> d] : d \in DocPool}
    \cup {[has_schedule |-> FALSE, schedule |-> EmptyDoc]}

\* the request threads of the web server (werkzeug serves each request in a
\* thread of its own); each is at a position of api_schedule/update_scheduler
Threads == {"t1", "t2"}

IdleThread == [pc |-> "idle", cron_data |-> EmptyDoc, k |-> 0, old |-> {}]

NoThreads == [t \in Threads |-> IdleThread]

UserCrontabs ==
    {NoCrontab, [exists |-> TRUE, lines |-> <<TextLine("0 5 * * * backup")>>]}

\* the templates of the manual triggers and of the schedule entries
StArgs2 == <<"2", "eastbound", "goodwin_station", "2">>
PromoArgs == <<"promo1.mp3">>
SafetyArgs == <<"english">>

Templates ==
    {[kind |-> "station", args |-> StArgs], [kind |-> "station", args |-> StArgs2],
     [kind |-> "promo", args |-> PromoArgs], [kind |-> "safety", args |-> SafetyArgs]}

Range(f) == {f[x] : x \in DOMAIN f}

\* the clip files the templates refer to
AllClips == UNION {Range(Resolve(tpl.kind, tpl.args)) : tpl \in Templates}

\* current_announcement = None
None == "None"

NoAnnounced == [path |-> "", kind |-> "", status |-> 0]
NoGot == [status |-> 0, whole |-> FALSE, doc |-> EmptyDoc, list |-> <<>>]

(***************************************************************************)
(* The audio volume.  win64 keeps CURRENT_VOLUME as a Python float, an     *)
(* IEEE 754 double, deb-arm as an int.  A number is an int n, a finite     *)
(* double (-1)^neg * mantissa * 2^(e - 52) with a mantissa of 53 binary    *)
(* digits that starts with 1 (0 for 0.0), an infinity or a NaN.            *)
(***************************************************************************)
MantBits == 53
LimbBits == (MantBits + 1) \div 3
HighBits == MantBits - 2 * LimbBits
LimbSize == 2^LimbBits

\* a finite double with its mantissa in three limbs: hi holds the leading 1
\* and the next HighBits - 1 digits, mid and lo LimbBits digits each
Flt(neg, e, hi, mid, lo) ==
    [kind |-> "float", n |-> 0, neg |-> neg, e |-> e, hi |-> hi, mid |-> mid, lo |-> lo]
IntNum(n) == [kind |-> "int", n |-> n, neg |-> FALSE, e |-> 0, hi |-> 0, mid |-> 0, lo |-> 0]
Inf == [kind |-> "inf", n |-> 0, neg |-> FALSE, e |-> 0, hi |-> 0, mid |-> 0, lo |-> 0]
NaN == [kind |-> "nan", n |-> 0, neg |-> FALSE, e |-> 0, hi |-> 0, mid |-> 0, lo |-> 0]
Zero == Flt(FALSE, 0, 0, 0, 0)

\* the number of binary digits of n > 0
BitLen(n) == CHOOSE k \in 1..30 : 2^(k - 1) <= n /\ n < 2^k

\* the mantissa hi mid lo with `up` added to its last digit
RoundUp(neg, e, hi, mid, lo, up) ==
    IF ~up THEN Flt(neg, e, hi, mid, lo)
    ELSE IF lo + 1 < LimbSize THEN Flt(neg, e, hi, mid, lo + 1)
    ELSE IF mid + 1 < LimbSize THEN Flt(neg, e, hi, mid + 1, 0)
    ELSE IF hi + 1 < 2^HighBits THEN Flt(neg, e, hi + 1, 0, 0)
    ELSE Flt(neg, e + 1, 2^(HighBits - 1), 0, 0)

\* round to nearest, ties to even: guard is the first digit that is dropped,
\* sticky says that the digits after it are not all zero
RoundNearest(neg, e, hi, mid, lo, guard, sticky) ==
    RoundUp(neg, e, hi, mid, lo, guard = 1 /\ (sticky \/ lo % 2 = 1))

\* float(n) of an int of few digits
Magnitude(neg, n) == Flt(neg, BitLen(n) - 1, n * 2^(HighBits - BitLen(n)), 0, 0)
float(n) ==
    IF n = 0 THEN Zero ELSE IF n < 0 THEN Magnitude(TRUE, 0 - n) ELSE Magnitude(FALSE, n)

\* x > 1.0 and x <= 1.0 (both false of a NaN)
GreaterThanOne(x) ==
    \/ x.kind = "inf"
    \/ /\ x.kind = "float" /\ ~x.neg /\ x.hi # 0
       /\ \/ x.e > 0
          \/ x.e = 0 /\ (x.hi > 2^(HighBits - 1) \/ x.mid > 0 \/ x.lo > 0)
AtMostOne(x) == x.kind = "float" /\ ~GreaterThanOne(x)

\* v / c of the whole numbers c <= v < 2c, correctly rounded: the long
\* division limb by limb, rh, rm and rl are what is left after each limb
DivHigh(v, c) == (v * 2^(HighBits - 1)) \div c
RemHigh(v, c) == (v * 2^(HighBits - 1)) % c
DivMid(v, c) == (RemHigh(v, c) * LimbSize) \div c
RemMid(v, c) == (RemHigh(v, c) * LimbSize) % c
DivLow(v, c) == (RemMid(v, c) * LimbSize) \div c
RemLow(v, c) == (RemMid(v, c) * LimbSize) % c
DivNormal(v, c, e) ==
    RoundNearest(FALSE, e, DivHigh(v, c), DivMid(v, c), DivLow(v, c),
                 (2 * RemLow(v, c)) \div c, (2 * RemLow(v, c)) % c # 0)

\* v / c of the whole numbers 0 < v < 2c
RECURSIVE DivShift(_, _, _)
DivShift(v, c, e) == IF v >= c THEN DivNormal(v, c, e) ELSE DivShift(2 * v, c, e - 1)

\* int(x) of a finite double below 2^HighBits: towards zero
int_float(x) ==
    IF x.hi = 0 \/ x.e < 0 THEN 0
    ELSE IF x.neg THEN 0 - x.hi \div 2^(HighBits - 1 - x.e)
    ELSE x.hi \div 2^(HighBits - 1 - x.e)

\* volume / 100.0 of a volume > 1.0 that is a whole number below 200
Div100(x) == IF x.kind # "float" THEN x ELSE DivShift(int_float(x), 100, 0)

\* the limbs of mantissa * c for a small c, and the product shifted right
\* by the s digits it has too many
MulLow(x, c) == x.lo * c
MulMid(x, c) == x.mid * c + MulLow(x, c) \div LimbSize
MulHigh(x, c) == x.hi * c + MulMid(x, c) \div LimbSize
ShiftRight(neg, e, ph, pm, pl, s) ==
    IF s = 0 THEN Flt(neg, e, ph, pm, pl)
    ELSE RoundNearest(neg, e + s, ph \div 2^s,
                      (ph % 2^s) * 2^(LimbBits - s) + pm \div 2^s,
                      (pm % 2^s) * 2^(LimbBits - s) + pl \div 2^s,
                      (pl % 2^s) \div 2^(s - 1), (pl % 2^(s - 1)) # 0)

\* x * 100 and x * 100.0
Mul100(x) ==
    IF x.kind # "float" \/ x.hi = 0 THEN x
    ELSE ShiftRight(x.neg, x.e, MulHigh(x, 100), MulMid(x, 100) % LimbSize,
                    MulLow(x, 100) % LimbSize, BitLen(MulHigh(x, 100)) - HighBits)

One == float(1)

\* max(0.0, min(1.0, float(volume))): min and max keep their first argument
\* unless the second compares smaller, or greater
Clamp01(x) ==
    IF x.kind = "float" /\ (x.neg \/ x.hi = 0) THEN Zero
    ELSE IF x.kind = "float" /\ x.e < 0 THEN x
    ELSE One

\* max(0, min(100, int(volume)))
Clamp100(n) == IF n < 0 THEN 0 ELSE IF n > 100 THEN 100 ELSE n

\* the bodies of the volume requests: whole numbers, the texts that float()
\* reads as an infinity and as a NaN, a text it refuses, and no volume
MaxVolume == 101

VolumeInputs ==
    {[kind |-> "num", n |-> p] : p \in -1..MaxVolume}
        \cup {[kind |-> k, n |-> 0] : k \in {"inf", "nan", "abc", "missing"}}

\* the volumes of the form's slider and a form without the field
FormVolumes ==
    {v \in VolumeInputs : v.kind = "missing" \/ (v.kind = "num" /\ v.n \in {0, 1, 50})}

\* float(data['volume']), float(request.form.get('volume', 0.7)) (deb-arm:
\* 70)
ParseVolume(v) ==
    IF v.kind = "num" THEN float(v.n)
    ELSE IF v.kind = "inf" THEN Inf
    ELSE IF v.kind = "nan" THEN NaN
    ELSE IF platform = "win64" THEN Div100(float(70)) ELSE float(70)

NoNum == [kind |-> "none", n |-> 0, neg |-> FALSE, e |-> 0, hi |-> 0, mid |-> 0, lo |-> 0]
NoVolumeAnswer == [method |-> "", status |-> 0, posted |-> [kind |-> "", n |-> 0],
                   volume_percent |-> NoNum]

\* CURRENT_VOLUME = 0.7 (win64), CURRENT_VOLUME = 70 (deb-arm)
DefaultVolume == IF platform = "win64" THEN Div100(float(70)) ELSE IntNum(70)

AudioIdle ==
    /\ CURRENT_VOLUME = DefaultVolume
    /\ AUDIO_AVAILABLE = TRUE
    /\ volume_answer = NoVolumeAnswer

\* 'volume_percent': int(CURRENT_VOLUME * 100) (win64), CURRENT_VOLUME
\* (deb-arm)
volume_percent(volume) ==
    IF platform = "win64" THEN IntNum(int_float(Mul100(volume))) ELSE volume

VolumeAnswer(method, status, v, volume) ==
    [method |-> method, status |-> status, posted |-> v,
     volume_percent |-> IF status = 200 THEN volume_percent(volume) ELSE NoNum]

\* the ranges the routes convert between: volume / 100.0 of a volume above
\* 1.0 (win64 API), volume * 100.0 of a volume up to 1.0 (deb-arm), and
\* no conversion (win64 form)
Scaled(route, x) ==
    IF platform = "win64"
    THEN IF route = "api" /\ GreaterThanOne(x) THEN Div100(x) ELSE x
    ELSE IF AtMostOne(x) THEN Mul100(x) ELSE x

\* set_volume of win64: [ok, volume]
set_volume_win(x) ==
    IF AUDIO_AVAILABLE THEN [ok |-> TRUE, volume |-> Clamp01(x)]
    ELSE [ok |-> FALSE, volume |-> CURRENT_VOLUME]

\* set_volume of deb-arm, with PulseAudio: int() raises on an infinity and
\* on a NaN, and the except clause stores the volume as it is
set_volume_pulse(x, pactl) ==
    IF x.kind # "float" THEN [ok |-> FALSE, volume |-> x]
    ELSE [ok |-> pactl = "ran", volume |-> IntNum(Clamp100(int_float(x)))]

\* a POST of the volume to the API route or to the form's route
VolumeSet(route, v, pactl) ==
    /\ LET fail == IF route = "api" THEN 500 ELSE 400
           x == Scaled(route, ParseVolume(v))
       IN  IF v.kind = "abc" \/ (v.kind = "missing" /\ route = "api")
           THEN /\ volume_answer' = VolumeAnswer(route, 400, v, CURRENT_VOLUME)
                /\ UNCHANGED CURRENT_VOLUME
           ELSE IF platform = "win64"
           THEN /\ CURRENT_VOLUME' = set_volume_win(x).volume
                /\ volume_answer' = VolumeAnswer(route, IF set_volume_win(x).ok THEN 200 ELSE fail,
                                                 v, set_volume_win(x).volume)
           ELSE IF AUDIO_AVAILABLE
           THEN /\ CURRENT_VOLUME' = set_volume_pulse(x, pactl).volume
                /\ volume_answer' =
                       VolumeAnswer(route, IF set_volume_pulse(x, pactl).ok THEN 200 ELSE fail,
                                    v, set_volume_pulse(x, pactl).volume)
           ELSE IF x.kind = "float"
           THEN /\ CURRENT_VOLUME' = IntNum(Clamp100(int_float(x)))
                /\ volume_answer' = VolumeAnswer(route, 200, v, IntNum(Clamp100(int_float(x))))
           ELSE /\ volume_answer' = VolumeAnswer(route, IF x.kind = "nan" THEN 400 ELSE 500,
                                                 v, CURRENT_VOLUME)
                /\ UNCHANGED CURRENT_VOLUME
    /\ UNCHANGED <<vvars, svars, pvars, got, AUDIO_AVAILABLE>>

api_audio_volume_post(v, pactl) == VolumeSet("api", v, pactl)

set_volume_route(v, pactl) == VolumeSet("form", v, pactl)

\* GET /api/audio/volume
api_audio_volume_get ==
    /\ volume_answer' = VolumeAnswer("GET", 200, [kind |-> "", n |-> 0], CURRENT_VOLUME)
    /\ UNCHANGED <<vvars, svars, pvars, got, CURRENT_VOLUME, AUDIO_AVAILABLE>>

\* subprocess.run(['pactl', ...], timeout=2) returns or raises; only
\* deb-arm with PulseAudio runs it
PactlOutcomes ==
    IF platform = "deb-arm" /\ AUDIO_AVAILABLE THEN {"ran", "raised"} ELSE {"ran"}

InitVolume ==
    /\ cron_expr = ""
    /\ vresult = NoResult
    /\ platform \in {"win64", "deb-arm"}
    /\ cron_file = AbsentFile
    /\ jobs = {}
    /\ crontab = NoCrontab
    /\ now = 0
    /\ fired = EmptyBag
    /\ response = NoResponse
    /\ reapplied = FALSE
    /\ threads = NoThreads
    /\ mp3_files = AllClips
    /\ playback = <<>>
    /\ current_announcement = None
    /\ announced = NoAnnounced
    /\ got = NoGot
    /\ CURRENT_VOLUME = DefaultVolume
    /\ AUDIO_AVAILABLE \in BOOLEAN
    /\ volume_answer = NoVolumeAnswer

NextVolume ==
    \/ \E v \in VolumeInputs : \E pactl \in PactlOutcomes : api_audio_volume_post(v, pactl)
    \/ \E v \in FormVolumes : \E pactl \in PactlOutcomes : set_volume_route(v, pactl)
    \/ api_audio_volume_get

SpecVolume == InitVolume /\ [][NextVolume]_vars

\* no playback thread has been started and no request has been served
PlayerIdle ==
    /\ mp3_files = AllClips
    /\ playback = <<>>
    /\ current_announcement = None
    /\ announced = NoAnnounced
    /\ got = NoGot
    /\ AudioIdle

(***************************************************************************)
(* The applications as a state machine: each HTTP request and each tick    *)
(* of the trigger is one step.  The initial state is the one after start-  *)
(* up with no schedule file (update_scheduler / update_crontab return at   *)
(* once).                                                                  *)
(***************************************************************************)
Init ==
    /\ cron_expr = ""
    /\ vresult = NoResult
    /\ platform \in {"win64", "deb-arm"}
    /\ cron_file = AbsentFile
    /\ jobs = {}
    /\ crontab \in (IF platform = "deb-arm" THEN UserCrontabs ELSE {NoCrontab})
    /\ now = 0
    /\ fired = EmptyBag
    /\ response = NoResponse
    /\ reapplied = FALSE
    /\ threads = NoThreads
    /\ PlayerIdle

\* save_json('cron', data)
save_json(data) == [exists |-> TRUE, data |-> data]

Answer(status, success, active_jobs) ==
    [status |-> status, success |-> success, active_jobs |-> active_jobs]

\* the file is written before the update runs
WriteFile(file) ==
    /\ cron_file' = file
    /\ reapplied' = (cron_file = file)

\* the answer after update_scheduler: 500 from the except clause, else the
\* number of jobs of the scheduler
SchedulerUpdated(r) ==
    /\ jobs' = r.jobs
    /\ response' = IF r.raised THEN Answer(500, FALSE, 0)
                   ELSE Answer(200, TRUE, Cardinality(r.jobs))

\* the answer after update_crontab: get_cron_status()['active_jobs']
CrontabUpdated(r) ==
    /\ crontab' = r.crontab
    /\ response' = IF r.raised THEN Answer(500, FALSE, 0)
                   ELSE Answer(200, TRUE, get_cron_status_count(r.crontab))

\* the update ends the playback threads
ApiSchedulePostWin_StopsPlayback(body) ==
    /\ platform = "win64"
    /\ body.has_schedule
    /\ WriteFile(save_json(body.schedule))
    /\ SchedulerUpdated(update_scheduler(save_json(body.schedule), jobs, now))
    /\ playback' = <<>>
    /\ UNCHANGED <<cron_expr, vresult, platform, crontab, now, fired, threads, mp3_files,
                   current_announcement, announced, got, avars>>

\* win64 api_schedule, POST
ApiSchedulePostWin(body) ==
    /\ platform = "win64"
    /\ IF ~body.has_schedule
       THEN /\ response' = Answer(400, FALSE, 0)
            /\ reapplied' = FALSE
            /\ UNCHANGED <<cron_file, jobs>>
       ELSE /\ WriteFile(save_json(body.schedule))
            /\ SchedulerUpdated(update_scheduler(save_json(body.schedule), jobs, now))
    /\ UNCHANGED <<pvars, avars, got, cron_expr, vresult, platform, crontab, now, fired, threads>>

\* deb-arm api_schedule, POST
ApiSchedulePostArm(body) ==
    /\ platform = "deb-arm"
    /\ IF ~body.has_schedule
       THEN /\ response' = Answer(400, FALSE, 0)
            /\ reapplied' = FALSE
            /\ UNCHANGED <<cron_file, crontab>>
       ELSE /\ WriteFile(save_json(body.schedule))
            /\ CrontabUpdated(update_crontab(save_json(body.schedule), crontab))
    /\ UNCHANGED <<pvars, avars, got, cron_expr, vresult, platform, jobs, now, fired, threads>>

\* what a fired job does: the play_* function builds its sequence and hands
\* it to a playback thread
Firing(id, kind_func, seq) == [id |-> id, func |-> kind_func, seq |-> seq]

JobFiring(j) ==
    Firing(j.id, j.func,
           IF j.func = "play_station_announcement" THEN station_sequence(j.args)
           ELSE IF j.func = "play_promo" THEN promo_sequence(j.args)
           ELSE safety_sequence(j.args))

\* BackgroundScheduler._process_jobs at instant t: the due jobs are run and
\* get their next run time
ProcessJobs(js, t) ==
    [due  |-> {j \in js : j.next_run <= t},
     jobs |-> {IF j.next_run <= t THEN [j EXCEPT !.next_run = NextRun(j.parts, t)] ELSE j
                 : j \in js}]

\* the due jobs are submitted to the executor, all jobs keep their new run time
RunDue(r, before) ==
    /\ jobs' = r.jobs
    /\ fired' = before (+) SetToBag({JobFiring(j) : j \in r.due})

\* win64: the clock reaches the next instant and the scheduler thread wakes
TickWin ==
    /\ platform = "win64"
    /\ now < MaxTick
    /\ now' = now + 1
    /\ RunDue(ProcessJobs(jobs, now + 1), EmptyBag)
    /\ UNCHANGED <<pvars, avars, got, cron_expr, vresult, platform, cron_file, crontab, response, reapplied, threads>>

\* win64: the scheduler thread wakes once more within the same instant
\* (add_job and remove_all_jobs call wakeup())
WakeupWin ==
    /\ platform = "win64"
    /\ RunDue(ProcessJobs(jobs, now), fired)
    /\ UNCHANGED <<pvars, avars, got, cron_expr, vresult, platform, cron_file, crontab, now, response, reapplied, threads>>

\* scheduler_status of deb-arm: the id 'cron_<i>' of the i-th annunciator line
IsTarrJob(txt) == HasSub(txt, LogName) /\ ~StartsWith(Strip(txt), "#")

CronId(lines, i) ==
    "cron_" \o ToStr(Cardinality({j \in 1..(i - 1) : IsTarrJob(lines[j].txt)}))

CliCall(ls, i) == Firing(CronId(ls, i), PlayFunc(ls[i].kind), Resolve(ls[i].kind, ls[i].args))

CronRuns(ls, inst) ==
    {CliCall(ls, i) : i \in {n \in 1..Len(ls) : DaemonRuns(ls[n].txt, inst) /\ RunsApp(ls[n])}}

\* deb-arm: the clock reaches the next instant and cron runs the lines that
\* match; handle_cli calls the play_* function of the line's mode flag
TickArm ==
    /\ platform = "deb-arm"
    /\ now < MaxTick
    /\ now' = now + 1
    /\ fired' = SetToBag(CronRuns(crontab.lines, Instant(now + 1)))
    /\ UNCHANGED <<pvars, avars, got, cron_expr, vresult, platform, cron_file, jobs, crontab, response, reapplied, threads>>

Next ==
    \/ \E body \in Bodies : ApiSchedulePostWin(body)
    \/ \E body \in Bodies : ApiSchedulePostArm(body)
    \/ TickWin
    \/ WakeupWin
    \/ TickArm

Spec == Init /\ [][Next]_vars

(***************************************************************************)
(* win64 with the request threads and the scheduler thread interleaved.   *)
(* app.run(threaded=True) serves each POST in a thread of its own; the     *)
(* scheduler's own thread processes the due jobs.  remove_all_jobs,        *)
(* add_job and the scheduler's _process_jobs each hold the scheduler's     *)
(* lock, so each is one step; nothing holds it across update_scheduler.    *)
(* The initial state is the one after start-up with a schedule file.       *)
(***************************************************************************)
ConcDocs == {DocB, DocAll, DocBadItem}

StartJobs(doc) == update_scheduler(save_json(doc), {}, 0).jobs

InitConc ==
    /\ cron_expr = ""
    /\ vresult = NoResult
    /\ platform = "win64"
    /\ cron_file = save_json(DocAll)
    /\ jobs = StartJobs(DocAll)
    /\ crontab = NoCrontab
    /\ now = 0
    /\ fired = EmptyBag
    /\ response = NoResponse
    /\ reapplied = FALSE
    /\ threads = NoThreads
    /\ PlayerIdle

At(t, pc) == threads[t].pc = pc

Goto(t, th) == threads' = [threads EXCEPT ![t] = th]

\* api_schedule: save_json('cron', data['schedule'])
ReqSave(t, doc) ==
    /\ At(t, "idle")
    /\ cron_file' = save_json(doc)
    /\ Goto(t, [IdleThread EXCEPT !.pc = "load"])
    /\ UNCHANGED <<pvars, avars, got, cron_expr, vresult, platform, jobs, crontab, now, fired, response,
                   reapplied>>

\* update_scheduler: cron_data = json.load(f)
ReqLoad(t) ==
    /\ At(t, "load")
    /\ Goto(t, [threads[t] EXCEPT !.pc = "remove", !.cron_data = cron_file.data])
    /\ UNCHANGED <<pvars, avars, got, cron_expr, vresult, platform, cron_file, jobs, crontab, now, fired,
                   response, reapplied>>

\* the handler's except clause: 500
Raise(t) ==
    /\ response' = Answer(500, FALSE, 0)
    /\ Goto(t, IdleThread)

\* update_scheduler: scheduler.remove_all_jobs(); cron_data.get raises when
\* the document is no mapping.  old remembers the jobs that were live.
ReqRemoveAll(t) ==
    /\ At(t, "remove")
    /\ jobs' = remove_all_jobs(jobs)
    /\ IF threads[t].cron_data.isdict
       THEN /\ Goto(t, [threads[t] EXCEPT !.pc = "add", !.k = 1, !.old = JobKeys(jobs)])
            /\ UNCHANGED response
       ELSE Raise(t)
    /\ UNCHANGED <<pvars, avars, got, cron_expr, vresult, platform, cron_file, crontab, now, fired, reapplied>>

\* one round of the loops over the entries
AddEntry(t, e) ==
    IF ~e.item.isdict
    THEN /\ Raise(t)
         /\ UNCHANGED jobs
    ELSE /\ jobs' = IF ItemEnabled(e.item) /\ EntrySchedulable(e.item)
                    THEN add_job(jobs, e, now) ELSE jobs
         /\ Goto(t, [threads[t] EXCEPT !.k = @ + 1])
         /\ UNCHANGED response

ReqAddJob(t) ==
    /\ At(t, "add")
    /\ threads[t].k <= Len(Flat(threads[t].cron_data))
    /\ AddEntry(t, Flat(threads[t].cron_data)[threads[t].k])
    /\ UNCHANGED <<pvars, avars, got, cron_expr, vresult, platform, cron_file, crontab, now, fired, reapplied>>

\* api_schedule: jsonify(success=True, active_jobs=len(scheduler.get_jobs()))
ReqRespond(t) ==
    /\ At(t, "add")
    /\ threads[t].k > Len(Flat(threads[t].cron_data))
    /\ response' = Answer(200, TRUE, Cardinality(jobs))
    /\ Goto(t, IdleThread)
    /\ UNCHANGED <<pvars, avars, got, cron_expr, vresult, platform, cron_file, jobs, crontab, now, fired,
                   reapplied>>

NextConc ==
    \/ \E t \in Threads, d \in ConcDocs : ReqSave(t, d)
    \/ \E t \in Threads : ReqLoad(t)
    \/ \E t \in Threads : ReqRemoveAll(t)
    \/ \E t \in Threads : ReqAddJob(t)
    \/ \E t \in Threads : ReqRespond(t)
    \/ TickWin
    \/ WakeupWin

SpecConc == InitConc /\ [][NextConc]_vars


(***************************************************************************)
(* The validator state machine.                                            *)
(***************************************************************************)
InitValidate ==
    /\ cron_expr \in ValidatorInputs
    /\ vresult = NoResult
    /\ platform = "win64"
    /\ cron_file = AbsentFile
    /\ jobs = {}
    /\ crontab = NoCrontab
    /\ now = 0
    /\ fired = EmptyBag
    /\ response = NoResponse
    /\ reapplied = FALSE
    /\ threads = NoThreads
    /\ PlayerIdle

Validate ==
    /\ vresult = NoResult
    /\ vresult' = [arm |-> validate_cron_expression(cron_expr),
                   win |-> validate_cron_expression_win(cron_expr)]
    /\ UNCHANGED cron_expr
    /\ UNCHANGED svars
    /\ UNCHANGED <<pvars, avars, got, avars>>

NextValidate == Validate

SpecValidate == InitValidate /\ [][NextValidate]_vars

(***************************************************************************)
(* The sequence player as a state machine.  A play_* function builds its   *)
(* clip list and starts a daemon thread; the thread runs                   *)
(* play_audio_sequence (station) or play_audio (promo, safety).  One loop  *)
(* iteration of play_audio_sequence is two steps: the clip starts, the     *)
(* clip ends.  A thread started by the command line lives in a process     *)
(* whose main thread returns from handle_cli at once.                      *)
(***************************************************************************)
MaxPlayback == 1

\* the outcomes of the audio backend for one clip
Backend == {"played", "failed", "error"}

KindOf(func) ==
    IF func = "play_station_announcement" THEN "station"
    ELSE IF func = "play_promo" THEN "promo" ELSE "safety"

\* the thread object the play_* function of a template builds
NewThread(origin, func, args, cleared) ==
    [origin |-> origin, func |-> func, args |-> args,
     target |-> IF func = "play_station_announcement" THEN "play_audio_sequence"
                ELSE "play_audio",
     seq |-> Resolve(KindOf(func), args),
     i |-> 1, playing |-> FALSE, attempts |-> <<>>, last |-> "", pc |-> "new",
     cleared |-> cleared]

\* play_audio with the backend's outcome: what it returns, and whether an
\* exception leaves it
play_audio_NoExcept(outcome) ==
    [raised |-> outcome = "error", value |-> outcome = "played"]

play_audio(outcome) ==
    [raised |-> FALSE, value |-> outcome = "played"]

\* the thread after play_audio has come back in the loop of
\* play_audio_sequence (or as the thread's target)
AfterClip(th, r) ==
    IF r.raised THEN [th EXCEPT !.playing = FALSE, !.pc = "crashed"]
    ELSE [th EXCEPT !.playing = FALSE, !.i = th.i + 1,
                    !.last = IF r.value THEN "True" ELSE "False"]

\* the thread runs its target to the end before start() comes back
RECURSIVE RunAll(_, _)
RunAll(th, files) ==
    IF th.i > Len(th.seq) THEN [th EXCEPT !.pc = "done"]
    ELSE IF th.seq[th.i] \in files
         THEN RunAll([th EXCEPT !.i = th.i + 1, !.last = "True",
                                !.attempts = Append(th.attempts, th.seq[th.i])], files)
         ELSE RunAll([th EXCEPT !.i = th.i + 1], files)

Thread_start_Joined(th, files) == RunAll(th, files)

\* threading.Thread(target=..., daemon=True).start()
Thread_start(th, files) == [th EXCEPT !.pc = "run"]

\* for file_path in file_list
ClipAt(th) == th.seq[th.i]

\* a missing file ends the loop
SkipMissing_Abort(th) == [th EXCEPT !.i = Len(th.seq) + 1]

\* else: print("Missing audio file"); play_audio on its own returns False
SkipMissing(th) ==
    [th EXCEPT !.i = th.i + 1,
               !.last = IF th.target = "play_audio" THEN "False" ELSE th.last]

\* which handlers call stop_safety_announcement before the play_* function
CallsStop(path, kind) == path = "form" /\ kind \in {"station", "safety"}

stop_safety_announcement == None

Started(origin, func, args) ==
    Thread_start(NewThread(origin, func, args, CallsStop(origin, KindOf(func))), mp3_files)

RECURSIVE SeqOf(_)
SeqOf(S) ==
    IF S = {} THEN <<>>
    ELSE <<CHOOSE x \in S : TRUE>> \o SeqOf(S \ {CHOOSE x \in S : TRUE})

\* a stop that ends the playback threads that run
Dispatch_Interrupts(path, tpl) ==
    /\ current_announcement' =
          IF CallsStop(path, tpl.kind) THEN stop_safety_announcement
          ELSE current_announcement
    /\ playback' = IF CallsStop(path, tpl.kind)
                   THEN <<Started(path, PlayFunc(tpl.kind), tpl.args)>>
                   ELSE Append(playback, Started(path, PlayFunc(tpl.kind), tpl.args))
    /\ announced' = [path |-> path, kind |-> tpl.kind, status |-> 200]
    /\ UNCHANGED <<cron_expr, vresult, platform, cron_file, jobs, crontab, now, fired,
                   response, reapplied, threads, mp3_files, got, avars>>

\* the handlers of the manual triggers: the form routes, the API routes and
\* handle_cli
Dispatch(path, tpl) ==
    /\ current_announcement' =
          IF CallsStop(path, tpl.kind) THEN stop_safety_announcement
          ELSE current_announcement
    /\ playback' = Append(playback, Started(path, PlayFunc(tpl.kind), tpl.args))
    /\ announced' = [path |-> path, kind |-> tpl.kind, status |-> 200]
    /\ UNCHANGED <<cron_expr, vresult, platform, cron_file, jobs, crontab, now, fired,
                   response, reapplied, threads, mp3_files, got, avars>>

\* at most MaxPlayback threads are followed at a time
Trigger(path, tpl) == Len(playback) < MaxPlayback /\ Dispatch(path, tpl)

WebPlay(tpl) == Trigger("form", tpl)

\* the ids of the static catalogs (json/trains.json, ..., json/safety.json)
Catalog ==
    [train |-> {"1", "2"}, direction |-> {"westbound", "eastbound"},
     destination |-> {"goodwin_station"}, track |-> {"1", "2"},
     promo |-> {"promo1.mp3"}, safety |-> {"english"}]

\* the station template of a train that is in no catalog, one without its
\* track number, a promo file and a language that are in no catalog, and a
\* safety request without its language
StUnknown == <<"9", "westbound", "goodwin_station", "1">>

BadRequests ==
    {[kind |-> "station", args |-> StUnknown],
     [kind |-> "station", args |-> <<"1", "westbound", "goodwin_station", "">>],
     [kind |-> "promo", args |-> <<"promo9.mp3">>],
     [kind |-> "safety", args |-> <<"klingon">>],
     [kind |-> "safety", args |-> <<"">>]}

\* the bodies of the API's announce requests
ApiRequests == Templates \cup BadRequests

\* data['language'] in available_languages, data['file'] in
\* available_promos; the station route looks into no catalog
CatalogOk(kind, args) == kind = "station" \/ args[1] \in Catalog[kind]

\* validate_announcement_params: not params.get(field)
validate_announcement_params(args) == \A k \in 1..Len(args) : args[k] # ""

\* the API's announce routes: 400 for a request that fails a check, else the
\* play_* function
ApiPlay(tpl) ==
    IF validate_announcement_params(tpl.args) /\ CatalogOk(tpl.kind, tpl.args)
    THEN Trigger("api", tpl)
    ELSE /\ announced' = [path |-> "api", kind |-> tpl.kind, status |-> 400]
         /\ UNCHANGED <<cron_expr, vresult, platform, cron_file, jobs, crontab, now, fired,
                        response, reapplied, threads, mp3_files, playback,
                        current_announcement, got, avars>>
CliPlay(tpl) == Trigger("cli", tpl)

JobThreads(due) == SeqOf({Started("job", j.func, j.args) : j \in due})

\* win64: the tick with the playback threads of the due jobs
TickPlayWin ==
    /\ platform = "win64"
    /\ now < MaxTick
    /\ Len(playback) + Cardinality(ProcessJobs(jobs, now + 1).due) <= MaxPlayback
    /\ now' = now + 1
    /\ RunDue(ProcessJobs(jobs, now + 1), EmptyBag)
    /\ playback' = playback \o JobThreads(ProcessJobs(jobs, now + 1).due)
    /\ UNCHANGED <<cron_expr, vresult, platform, cron_file, crontab, response, reapplied,
                   threads, mp3_files, current_announcement, announced, got, avars>>

CronThreads(ls, inst) ==
    SeqOf({Started("cli", PlayFunc(ls[i].kind), ls[i].args) :
             i \in {n \in 1..Len(ls) : DaemonRuns(ls[n].txt, inst) /\ RunsApp(ls[n])}})

\* deb-arm: the tick with the processes cron starts
TickPlayArm ==
    /\ platform = "deb-arm"
    /\ now < MaxTick
    /\ Len(playback) + Len(CronThreads(crontab.lines, Instant(now + 1))) <= MaxPlayback
    /\ now' = now + 1
    /\ fired' = SetToBag(CronRuns(crontab.lines, Instant(now + 1)))
    /\ playback' = playback \o CronThreads(crontab.lines, Instant(now + 1))
    /\ UNCHANGED <<cron_expr, vresult, platform, cron_file, jobs, crontab, response,
                   reapplied, threads, mp3_files, current_announcement, announced, got, avars>>

PlayerStep(n, th) ==
    /\ playback' = [playback EXCEPT ![n] = th]
    /\ UNCHANGED <<cron_expr, vresult, platform, cron_file, jobs, crontab, now, fired,
                   response, reapplied, threads, mp3_files, current_announcement,
                   announced, got, avars>>

Running(n) == n \in 1..Len(playback) /\ playback[n].pc = "run"

\* if os.path.exists(file_path): play_audio(file_path) begins
ClipStart(n) ==
    /\ Running(n) /\ ~playback[n].playing /\ playback[n].i <= Len(playback[n].seq)
    /\ ClipAt(playback[n]) \in mp3_files
    /\ PlayerStep(n, [playback[n] EXCEPT !.playing = TRUE,
                         !.attempts = Append(playback[n].attempts, ClipAt(playback[n]))])

\* play_audio comes back; time.sleep(0.3)
ClipEnd(n, outcome) ==
    /\ Running(n) /\ playback[n].playing
    /\ PlayerStep(n, AfterClip(playback[n], play_audio(outcome)))

\* the file of the clip is missing
ClipMissing(n) ==
    /\ Running(n) /\ ~playback[n].playing /\ playback[n].i <= Len(playback[n].seq)
    /\ ClipAt(playback[n]) \notin mp3_files
    /\ PlayerStep(n, SkipMissing(playback[n]))

\* the playback threads without the n-th
Without(pb, n) == SubSeq(pb, 1, n - 1) \o SubSeq(pb, n + 1, Len(pb))

\* the loop is over and the thread ends
ThreadEnd(n) ==
    /\ Running(n) /\ ~playback[n].playing /\ playback[n].i > Len(playback[n].seq)
    /\ playback' = Without(playback, n)
    /\ UNCHANGED <<cron_expr, vresult, platform, cron_file, jobs, crontab, now, fired,
                   response, reapplied, threads, mp3_files, current_announcement,
                   announced, got, avars>>

\* handle_cli has returned: the interpreter exits and its daemon thread with it
ProcessExit(n) ==
    /\ Running(n) /\ playback[n].origin = "cli"
    /\ playback' = Without(playback, n)
    /\ UNCHANGED <<cron_expr, vresult, platform, cron_file, jobs, crontab, now, fired,
                   response, reapplied, threads, mp3_files, current_announcement,
                   announced, got, avars>>

MissingSets == SUBSET Range(station_sequence(StArgs))

\* the web server and the command line with no schedule (the player is the
\* same code in both variants)
InitPlay ==
    /\ cron_expr = ""
    /\ vresult = NoResult
    /\ platform = "win64"
    /\ cron_file = AbsentFile
    /\ jobs = {}
    /\ crontab = NoCrontab
    /\ now = 0
    /\ fired = EmptyBag
    /\ response = NoResponse
    /\ reapplied = FALSE
    /\ threads = NoThreads
    /\ mp3_files \in {AllClips \ m : m \in MissingSets}
    /\ playback = <<>>
    /\ current_announcement = None
    /\ announced = NoAnnounced
    /\ got = NoGot
    /\ AudioIdle

NextPlay ==
    \/ \E tpl \in Templates : WebPlay(tpl)
    \/ \E tpl \in Templates : ApiPlay(tpl)
    \/ \E tpl \in Templates : CliPlay(tpl)
    \/ \E n \in 1..MaxPlayback : ClipStart(n)
    \/ \E n \in 1..MaxPlayback : \E outcome \in Backend : ClipEnd(n, outcome)
    \/ \E n \in 1..MaxPlayback : ClipMissing(n)
    \/ \E n \in 1..MaxPlayback : ThreadEnd(n)
    \/ \E n \in 1..MaxPlayback : ProcessExit(n)

SpecPlay == InitPlay /\ [][NextPlay]_vars

(***************************************************************************)
(* The API's announce routes with requests of every kind, well formed or   *)
(* not, and the playback threads they start.  Every clip file is there.    *)
(***************************************************************************)
InitApi ==
    /\ cron_expr = ""
    /\ vresult = NoResult
    /\ platform \in {"win64", "deb-arm"}
    /\ cron_file = AbsentFile
    /\ jobs = {}
    /\ crontab = NoCrontab
    /\ now = 0
    /\ fired = EmptyBag
    /\ response = NoResponse
    /\ reapplied = FALSE
    /\ threads = NoThreads
    /\ PlayerIdle

NextApi ==
    \/ \E tpl \in ApiRequests : ApiPlay(tpl)
    \/ \E n \in 1..MaxPlayback : ClipStart(n)
    \/ \E n \in 1..MaxPlayback : \E outcome \in Backend : ClipEnd(n, outcome)
    \/ \E n \in 1..MaxPlayback : ClipMissing(n)
    \/ \E n \in 1..MaxPlayback : ThreadEnd(n)

SpecApi == InitApi /\ [][NextApi]_vars

(***************************************************************************)
(* The schedule with the playback of the jobs it fires: the ticks start    *)
(* playback threads, the schedule endpoint replaces the schedule while     *)
(* they play.  The initial state is the one after start-up with a          *)
(* schedule of one station entry.                                          *)
(***************************************************************************)
\* a station entry that is due at 08:00 of every day
sDaily == Entry(TRUE, "0 8 * * *", StArgs)
DocDaily == Doc(AllKeys, <<sDaily>>, <<>>, <<>>)

PlayDocs == {DocDaily, DocB}
PlayBodies == {[has_schedule |-> TRUE, schedule |-> d] : d \in PlayDocs}

\* every clip is there, or the third clip of the station sequence is missing
SchedFiles == {AllClips, AllClips \ {station_sequence(StArgs)[3]}}

InitSched ==
    /\ cron_expr = ""
    /\ vresult = NoResult
    /\ platform \in {"win64", "deb-arm"}
    /\ cron_file = save_json(DocDaily)
    /\ jobs = IF platform = "win64" THEN StartJobs(DocDaily) ELSE {}
    /\ crontab = IF platform = "deb-arm"
                 THEN update_crontab(save_json(DocDaily), NoCrontab).crontab
                 ELSE NoCrontab
    /\ now = 0
    /\ fired = EmptyBag
    /\ response = NoResponse
    /\ reapplied = FALSE
    /\ threads = NoThreads
    /\ mp3_files \in SchedFiles
    /\ playback = <<>>
    /\ current_announcement = None
    /\ announced = NoAnnounced
    /\ got = NoGot
    /\ AudioIdle

NextSched ==
    \/ TickPlayWin
    \/ TickPlayArm
    \/ \E n \in 1..MaxPlayback : ClipStart(n)
    \/ \E n \in 1..MaxPlayback : \E outcome \in Backend : ClipEnd(n, outcome)
    \/ \E n \in 1..MaxPlayback : ClipMissing(n)
    \/ \E n \in 1..MaxPlayback : ThreadEnd(n)
    \/ \E n \in 1..MaxPlayback : ProcessExit(n)
    \/ \E body \in PlayBodies : ApiSchedulePostWin(body)
    \/ \E body \in PlayBodies : ApiSchedulePostArm(body)

SpecSched == InitSched /\ [][NextSched]_vars

(***************************************************************************)
(* The schedule file under the requests that write and read it.  save_json *)
(* is open(path, 'w'), which empties the file, and json.dump, which writes *)
(* the document; either can fail.  Each request runs in a thread of its    *)
(* own; the update that follows the save and the GET are one step each.    *)
(***************************************************************************)
\* the content of a file that json.load cannot parse (empty or cut short)
Unparsable == [isdict |-> FALSE, keys |-> {"<unparsable>"}, lists |-> NoLists]

\* the file after open(path, 'w')
Truncated == [exists |-> TRUE, data |-> Unparsable]

\* what load_json returns: the document as a whole, or one of its values
Whole(doc) == [whole |-> TRUE, doc |-> doc, list |-> <<>>]
Inner(list) == [whole |-> FALSE, doc |-> EmptyDoc, list |-> list]

\* load_json(name) with the file JSON_FILES[name]
load_json(name, file) ==
    IF ~file.exists THEN Inner(<<>>)
    ELSE IF file.data.isdict /\ name \in {ListKey(k) : k \in file.data.keys}
         THEN Inner(file.data.lists[CHOOSE k \in file.data.keys : ListKey(k) = name])
    ELSE IF file.data.isdict /\ Cardinality(file.data.keys) = 1
         THEN Inner(file.data.lists[CHOOSE k \in file.data.keys : TRUE])
    ELSE Whole(file.data)

Got(status, value) ==
    [status |-> status, whole |-> value.whole, doc |-> value.doc, list |-> value.list]

\* a GET that writes the empty document when there is no file yet
ApiScheduleGet_CreatesFile ==
    /\ got' = IF cron_file = Truncated THEN Got(500, Inner(<<>>))
              ELSE Got(200, load_json("cron", cron_file))
    /\ cron_file' = IF cron_file.exists THEN cron_file ELSE save_json(EmptyDoc)
    /\ UNCHANGED <<pvars, avars, cron_expr, vresult, platform, jobs, crontab, now, fired,
                   response, reapplied, threads>>

\* api_schedule, GET: {'schedule': load_json('cron')}; json.load raises on a
\* file it cannot parse and the request ends with status 500
ApiScheduleGet ==
    /\ got' = IF cron_file = Truncated THEN Got(500, Inner(<<>>))
              ELSE Got(200, load_json("cron", cron_file))
    /\ UNCHANGED <<pvars, avars, cron_expr, vresult, platform, cron_file, jobs, crontab, now, fired,
                   response, reapplied, threads>>

\* the except clause answers with success
SaveFailed_Success == Answer(200, TRUE, 0)

\* api_schedule: except Exception as e: return {'error': ...}, 500
SaveFailed == Answer(500, FALSE, 0)

\* save_json: open(path, 'w'), which may raise
ReqOpen(t, doc, opened) ==
    /\ At(t, "idle")
    /\ IF opened
       THEN /\ cron_file' = Truncated
            /\ Goto(t, [IdleThread EXCEPT !.pc = "dump", !.cron_data = doc])
            /\ UNCHANGED response
       ELSE /\ response' = SaveFailed
            /\ UNCHANGED <<cron_file, threads>>
    /\ UNCHANGED <<pvars, avars, got, cron_expr, vresult, platform, jobs, crontab, now, fired,
                   reapplied>>

\* save_json: json.dump(data, f, indent=4) and the close, which may raise
ReqDump(t, written) ==
    /\ At(t, "dump")
    /\ IF written
       THEN /\ cron_file' = save_json(threads[t].cron_data)
            /\ Goto(t, [threads[t] EXCEPT !.pc = "update"])
            /\ UNCHANGED response
       ELSE /\ response' = SaveFailed
            /\ Goto(t, IdleThread)
            /\ UNCHANGED cron_file
    /\ UNCHANGED <<pvars, avars, got, cron_expr, vresult, platform, jobs, crontab, now, fired,
                   reapplied>>

\* json.load of update_scheduler / update_crontab raises on a file it cannot
\* parse, before anything is changed
LoadRaises(js, tab) == [jobs |-> js, crontab |-> tab, raised |-> TRUE]

\* api_schedule after the save: the update and the answer
ReqUpdate(t) ==
    /\ At(t, "update")
    /\ Goto(t, IdleThread)
    /\ IF platform = "win64"
       THEN /\ SchedulerUpdated(IF cron_file = Truncated THEN LoadRaises(jobs, crontab)
                                ELSE update_scheduler(cron_file, jobs, now))
            /\ UNCHANGED crontab
       ELSE /\ CrontabUpdated(IF cron_file = Truncated THEN LoadRaises(jobs, crontab)
                              ELSE update_crontab(cron_file, crontab))
            /\ UNCHANGED jobs
    /\ UNCHANGED <<pvars, avars, got, cron_expr, vresult, platform, cron_file, now, fired, reapplied>>

StoreDocs == {DocA, DocPromoOnly}

InitStore ==
    /\ cron_expr = ""
    /\ vresult = NoResult
    /\ platform \in {"win64", "deb-arm"}
    /\ cron_file = AbsentFile
    /\ jobs = {}
    /\ crontab = NoCrontab
    /\ now = 0
    /\ fired = EmptyBag
    /\ response = NoResponse
    /\ reapplied = FALSE
    /\ threads = NoThreads
    /\ PlayerIdle

NextStore ==
    \/ ApiScheduleGet
    \/ \E t \in Threads : \E doc \in StoreDocs : \E opened \in BOOLEAN : ReqOpen(t, doc, opened)
    \/ \E t \in Threads : \E written \in BOOLEAN : ReqDump(t, written)
    \/ \E t \in Threads : ReqUpdate(t)

SpecStore == InitStore /\ [][NextStore]_vars

(***************************************************************************)
(* Claims about the validators (checked under SpecValidate).               *)
(***************************************************************************)
Validated == vresult # NoResult

\* The number of whitespace-separated fields of a string, counted by the
\* places where a field starts.
CountFields(s) ==
    Cardinality({i \in 1..Len(s) :
                    ~IsSpace(Ch(s, i)) /\ (i = 1 \/ IsSpace(Ch(s, i - 1)))})

\* The supported grammar of one list element within the domain lo..hi:
\* wildcard, literal, range a-b with a <= b, step */n or a/n with n > 0.
InDomain(t, lo, hi) == DigitsOnly(t) /\ lo <= int(t) /\ int(t) <= hi

GrammarElem(e, lo, hi) ==
    \/ e = "*"
    \/ InDomain(e, lo, hi)
    \/ LET p == SplitOn(e, "-")
       IN  Len(p) = 2 /\ InDomain(p[1], lo, hi) /\ InDomain(p[2], lo, hi)
             /\ int(p[1]) <= int(p[2])
    \/ LET p == SplitOn(e, "/")
       IN  Len(p) = 2 /\ (p[1] = "*" \/ InDomain(p[1], lo, hi))
             /\ DigitsOnly(p[2]) /\ int(p[2]) > 0

\* ... or a comma-separated list of such elements
GrammarField(f, lo, hi) ==
    LET es == SplitOn(f, ",") IN \A i \in 1..Len(es) : GrammarElem(es[i], lo, hi)

GrammarCron(expr) ==
    /\ CountFields(expr) = 5
    /\ \A k \in 1..5 :
          GrammarField(split(expr)[k], FieldDomains[k].lo, FieldDomains[k].hi)

\* C7: validate_cron_expression returns success for every 5-field cron string
\* whose fields are built from the supported grammar (wildcard, literal, range,
\* step, or a comma-list of these) within the field's domain.
C7_GrammarAccepted ==
    (Validated /\ GrammarCron(cron_expr)) => vresult.arm.ok

\* C8: validate_cron_expression (both variants) fails with the field-count
\* error for every input that does not split into exactly 5 fields, and no
\* field is range-checked in that case.
C8_FieldCount ==
    (Validated /\ CountFields(cron_expr) # 5) =>
        /\ ~vresult.arm.ok /\ vresult.arm.msg = "count" /\ vresult.arm.checked = 0
        /\ ~vresult.win.ok /\ vresult.win.msg = "count" /\ vresult.win.checked = 0

C8_Witness ==
    /\ Validated
    /\ CountFields(cron_expr) = 6
    /\ split(cron_expr)[1] = "99"
    /\ vresult.arm.msg = "count"

\* An integer outside lo..hi standing as a bare literal, as an endpoint of a
\* range or as the base of a step in one list element
OutOfDomain(t, lo, hi) == int_ok(t) /\ (int(t) < lo \/ int(t) > hi)

ElemOutOfDomain(e, lo, hi) ==
    LET head == SplitOn(e, "/")[1]
        ends == SplitOn(head, "-")
    IN  \/ OutOfDomain(head, lo, hi)
        \/ Len(ends) = 2 /\ (OutOfDomain(ends[1], lo, hi) \/ OutOfDomain(ends[2], lo, hi))

FieldOutOfDomain(f, lo, hi) ==
    LET es == SplitOn(f, ",") IN \E i \in 1..Len(es) : ElemOutOfDomain(es[i], lo, hi)

\* C9: validate_cron_expression fails for every 5-field string in which a
\* field holds an integer outside the field's domain, as a bare literal, an
\* endpoint of a range, the base of a step or an element of a comma-list.
C9_OutOfDomainFails ==
    (Validated /\ CountFields(cron_expr) = 5
       /\ \E k \in 1..5 : FieldOutOfDomain(split(cron_expr)[k],
                                           FieldDomains[k].lo, FieldDomains[k].hi))
    => ~vresult.arm.ok

C9_Witness ==
    /\ Validated
    /\ cron_expr = "* * * * 0-8"
    /\ ~vresult.arm.ok /\ vresult.arm.msg = "day_of_week"

\* C10: a field base/step fails when its step is zero, negative or not an
\* integer, and when it has more than one '/'; it is accepted only when the
\* step is a positive integer and the base is '*' or an in-domain integer.
C10_StepValidation ==
    (Validated /\ CountFields(cron_expr) = 5) =>
        \A k \in 1..5 :
            LET f  == split(cron_expr)[k]
                p  == SplitOn(f, "/")
                lo == FieldDomains[k].lo
                hi == FieldDomains[k].hi
            IN  Contains(f, "/") =>
                  /\ Len(p) > 2 => ~vresult.arm.ok
                  /\ (Len(p) = 2 /\ (~int_ok(p[2]) \/ int(p[2]) <= 0)) => ~vresult.arm.ok
                  /\ vresult.arm.ok =>
                        /\ Len(p) = 2
                        /\ int_ok(p[2]) /\ int(p[2]) > 0
                        /\ (p[1] = "*"
                            \/ (int_ok(p[1]) /\ lo <= int(p[1]) /\ int(p[1]) <= hi))

C10_Witness ==
    /\ Validated
    /\ cron_expr = "*/0 * * * *"
    /\ ~vresult.arm.ok /\ vresult.arm.msg = "minute"

(***************************************************************************)
(* The installation over its life: the web server is started and started   *)
(* again, the schedule is posted, `app.py --update-cron` is run, and        *)
(* json/cron.json is removed from the installation directory (a reset, a   *)
(* fresh copy of the application).  The user's crontab outlives the        *)
(* process and the directory; the jobs of the BackgroundScheduler live in  *)
(* the process.                                                            *)
(***************************************************************************)
\* the crontab the user has before the first update: none, a job, comments
\* and blank lines around a job, and the header of an earlier generation
\* with the user's own lines after it
StartCrontabs ==
    {NoCrontab,
     [exists |-> TRUE, lines |-> <<TextLine("# nightly"), TextLine(""),
                                   TextLine("0 5 * * * backup")>>],
     [exists |-> TRUE, lines |-> <<TextLine(""), TextLine("0 5 * * * backup"),
                                   TextLine("")>>],
     [exists |-> TRUE, lines |-> <<TextLine(TarrHeader), TextLine("# mine"),
                                   TextLine("0 5 * * * backup")>>]}

StartDocs == {DocDaily, DocB, DocAll, DocPromoOnly}
StartBodies == {[has_schedule |-> TRUE, schedule |-> d] : d \in StartDocs}

\* handle_cli without a mode flag: the server starts, with a scheduler that
\* has no job (win64), and updates once
Startup ==
    /\ IF platform = "win64"
       THEN /\ jobs' = update_scheduler(cron_file, {}, now).jobs
            /\ UNCHANGED crontab
       ELSE /\ crontab' = update_crontab(cron_file, crontab).crontab
            /\ UNCHANGED jobs
    /\ response' = NoResponse
    /\ reapplied' = FALSE
    /\ UNCHANGED <<pvars, avars, got, cron_expr, vresult, platform, cron_file, now, fired, threads>>

\* deb-arm, handle_cli with --update-cron
CliUpdateCron ==
    /\ platform = "deb-arm"
    /\ crontab' = update_crontab(cron_file, crontab).crontab
    /\ UNCHANGED <<pvars, avars, got, cron_expr, vresult, platform, cron_file, jobs, now, fired,
                   response, reapplied, threads>>

\* json/cron.json is removed from the installation directory
FileRemoved ==
    /\ cron_file.exists
    /\ cron_file' = AbsentFile
    /\ UNCHANGED <<pvars, avars, got, cron_expr, vresult, platform, jobs, crontab, now, fired,
                   response, reapplied, threads>>

InitStart ==
    /\ cron_expr = ""
    /\ vresult = NoResult
    /\ platform \in {"win64", "deb-arm"}
    /\ cron_file = AbsentFile
    /\ jobs = {}
    /\ crontab \in (IF platform = "deb-arm" THEN StartCrontabs ELSE {NoCrontab})
    /\ now = 0
    /\ fired = EmptyBag
    /\ response = NoResponse
    /\ reapplied = FALSE
    /\ threads = NoThreads
    /\ PlayerIdle

NextStart ==
    \/ CliUpdateCron
    \/ Startup
    \/ FileRemoved
    \/ \E body \in StartBodies : ApiSchedulePostWin(body)
    \/ \E body \in StartBodies : ApiSchedulePostArm(body)

SpecStart == InitStart /\ [][NextStart]_vars

(***************************************************************************)
(* The routes that look and the routes that play, with a schedule in       *)
(* place: /scheduler_status, the GET of /api/schedule, the forms and the   *)
(* API's announce routes, between the POSTs that set the schedule.         *)
(***************************************************************************)
\* scheduler_status: scheduler.get_jobs() / get_cron_status(); the answer is
\* kept as status, scheduler_running and the number of jobs listed
scheduler_status(js, tab) ==
    IF platform = "win64" THEN Answer(200, TRUE, Cardinality(js))
    ELSE Answer(200, tab.exists, get_cron_status_count(tab))

SchedulerStatus ==
    /\ response' = scheduler_status(jobs, crontab)
    /\ UNCHANGED <<pvars, avars, got, cron_expr, vresult, platform, cron_file, jobs, crontab,
                   now, fired, reapplied, threads>>

InitLook ==
    /\ cron_expr = ""
    /\ vresult = NoResult
    /\ platform \in {"win64", "deb-arm"}
    /\ cron_file = AbsentFile
    /\ jobs = {}
    /\ crontab = NoCrontab
    /\ now = 0
    /\ fired = EmptyBag
    /\ response = NoResponse
    /\ reapplied = FALSE
    /\ threads = NoThreads
    /\ PlayerIdle

\* the schedule the POSTs put in place: one station entry, daily at 08:00
LookBodies == {[has_schedule |-> TRUE, schedule |-> DocDaily]}

\* one request of each kind
LookTemplates ==
    {[kind |-> "station", args |-> StArgs], [kind |-> "promo", args |-> PromoArgs],
     [kind |-> "safety", args |-> SafetyArgs]}

NextLook ==
    \/ SchedulerStatus
    \/ ApiScheduleGet
    \/ \E tpl \in LookTemplates : WebPlay(tpl)
    \/ \E tpl \in LookTemplates : ApiPlay(tpl)
    \/ \E n \in 1..MaxPlayback : ClipStart(n)
    \/ \E n \in 1..MaxPlayback : \E outcome \in Backend : ClipEnd(n, outcome)
    \/ \E n \in 1..MaxPlayback : ThreadEnd(n)
    \/ \E body \in LookBodies : ApiSchedulePostWin(body)
    \/ \E body \in LookBodies : ApiSchedulePostArm(body)

SpecLook == InitLook /\ [][NextLook]_vars

(***************************************************************************)
(* The forms while earlier playbacks run: a request is served while up to  *)
(* MaxPlayback threads of earlier requests are still playing.              *)
(***************************************************************************)
Beside == MaxPlayback + 1

\* a form or an API request beside the running playbacks
PlayBeside(path, tpl) == Len(playback) < Beside /\ Dispatch(path, tpl)

InitStop ==
    /\ cron_expr = ""
    /\ vresult = NoResult
    /\ platform \in {"win64", "deb-arm"}
    /\ cron_file = AbsentFile
    /\ jobs = {}
    /\ crontab = NoCrontab
    /\ now = 0
    /\ fired = EmptyBag
    /\ response = NoResponse
    /\ reapplied = FALSE
    /\ threads = NoThreads
    /\ PlayerIdle

NextStop ==
    \/ \E tpl \in LookTemplates : PlayBeside("form", tpl)
    \/ \E tpl \in LookTemplates : PlayBeside("api", tpl)
    \/ \E n \in 1..Beside : ClipStart(n)
    \/ \E n \in 1..Beside : \E outcome \in Backend : ClipEnd(n, outcome)
    \/ \E n \in 1..Beside : ThreadEnd(n)

SpecStop == InitStop /\ [][NextStop]_vars

(***************************************************************************)
(* Claims about the schedule synchroniser and the trigger (checked under   *)
(* Spec).                                                                  *)
(***************************************************************************)
FileDoc == cron_file.data

\* the entries of the persisted document that are mappings
Entries(doc) == {Flat(doc)[k] : k \in {n \in 1..Len(Flat(doc)) : Flat(doc)[n].item.isdict}}

EnabledEntries(doc) == {e \in Entries(doc) : e.item.enabled}
DisabledEntries(doc) == {e \in Entries(doc) : ~e.item.enabled}

\* a document whose every item is a mapping
WellFormed(doc) == doc.isdict /\ \A k \in 1..Len(Flat(doc)) : Flat(doc)[k].item.isdict

\* the id the specification gives the job of an entry: <kind>_<index>
ClaimId(kind, i) == kind \o "_" \o ToStr(i)

\* the annunciator's job lines of the crontab
TarrLines(tab) == {tab.lines[i] : i \in {n \in 1..Len(tab.lines) : IsTarrJob(tab.lines[n].txt)}}

\* the playback call an entry stands for
EntryCall(e) == [func |-> PlayFunc(e.kind), seq |-> Resolve(e.kind, e.item.args)]
Calls(bag) == {[func |-> r.func, seq |-> r.seq] : r \in BagToSet(bag)}

C1_NoLiveDisabled ==
    /\ platform = "win64" =>
         \A e \in DisabledEntries(FileDoc) :
            ~\E j \in jobs : j.id = ClaimId(e.kind, e.i)
    /\ platform = "deb-arm" =>
         \A e \in DisabledEntries(FileDoc) :
            CronLine(e) \in TarrLines(crontab) =>
               \E e2 \in EnabledEntries(FileDoc) : CronLine(e2) = CronLine(e)
    /\ response.status = 200 =>
         response.active_jobs <= Cardinality(EnabledEntries(FileDoc))

C1_NoDisabledFired ==
    now' # now =>
        \A e \in DisabledEntries(FileDoc) :
            EntryCall(e) \in Calls(fired') =>
               \E e2 \in EnabledEntries(FileDoc) : EntryCall(e2) = EntryCall(e)

\* C1: after any sequence of schedule updates no live job and no crontab line
\* exists for an entry whose enabled flag is false, active_jobs counts no such
\* entry, and no tick fires one.
C1_DisabledNeverLive == []C1_NoLiveDisabled /\ [][C1_NoDisabledFired]_vars

\* the validator of the platform (dev/win64, dev/deb-arm validate_cron.py)
PlatformValid(cron) ==
    IF platform = "win64" THEN validate_cron_expression_win(cron).ok
    ELSE validate_cron_expression(cron).ok

Registered(e) ==
    IF platform = "win64" THEN \E j \in jobs : j.id = ClaimId(e.kind, e.i)
    ELSE CronLine(e) \in TarrLines(crontab)

\* C2: when a (well-formed) document has been applied, an entry has a job
\* exactly when it is enabled and its cron expression passes the validator; an
\* invalid entry is neither registered nor emitted and does not keep the valid
\* entries from being registered.
C2_RegisteredIffEnabledValid ==
    (cron_file.exists /\ WellFormed(FileDoc)) =>
        \A e \in Entries(FileDoc) :
            Registered(e) <=> (e.item.enabled /\ PlatformValid(e.item.cron))

\* the ids of the live jobs: the scheduler's job ids on win64, the ids
\* scheduler_status gives the annunciator lines on deb-arm
LiveIds ==
    IF platform = "win64" THEN {j.id : j \in jobs}
    ELSE {CronId(crontab.lines, i) :
            i \in {n \in 1..Len(crontab.lines) : IsTarrJob(crontab.lines[n].txt)}}

LiveCount ==
    IF platform = "win64" THEN Cardinality(jobs) ELSE get_cron_status_count(crontab)

\* the annunciator's job lines of the crontab in their order
TarrSeq(tab) == SelectSeq(tab.lines, LAMBDA l : IsTarrJob(l.txt))

\* a step that posts the document the file already holds leaves the live
\* jobs as they were: the same jobs in the scheduler, the same job lines in
\* the same order in the crontab (the ids and the number of the live jobs are
\* functions of these)
C4_SameDocStep ==
    (cron_file.exists /\ cron_file' = cron_file /\ reapplied') =>
        /\ JobKeys(jobs') = JobKeys(jobs)
        /\ TarrSeq(crontab') = TarrSeq(crontab)

C4_KindIndexIds ==
    \A id \in LiveIds : \E e \in EnabledEntries(FileDoc) : id = ClaimId(e.kind, e.i)

\* C4 (as stated): applying the same document twice in a row leaves the same
\* live jobs, job count and job ids as applying it once, and every job id is
\* <kind>_<index within the category list>, on win64 and on deb-arm.
C4_IdempotentKindIds == []C4_KindIndexIds /\ [][C4_SameDocStep]_vars

C4_PlatformIds ==
    IF platform = "win64" THEN C4_KindIndexIds
    ELSE LiveIds = {"cron_" \o ToStr(n) : n \in 0..(LiveCount - 1)}

\* C4 (amended): applying the same document twice in a row leaves the same
\* live jobs, job count and job ids as applying it once; on win64 every job id
\* is <kind>_<index within the category list>, on deb-arm the jobs are the
\* crontab lines and their ids are cron_0, cron_1, ... by position.
C4_Idempotent == []C4_PlatformIds /\ [][C4_SameDocStep]_vars

\* a document with three enabled entries has been posted twice in a row
C4_Witness ==
    /\ reapplied
    /\ cron_file.exists /\ FileDoc = DocAll
    /\ response.status = 200 /\ response.active_jobs = 3
    /\ LiveCount = 3

IsEightOClock(t) == Instant(t).hour = 8 /\ Instant(t).minute = 0
IsMonday(t) == Instant(t).weekday = 0
IsSunday(t) == Instant(t).weekday = 6

C5_Sequence ==
    <<"chime.mp3", "train/1.mp3", "direction/westbound.mp3",
      "destination/goodwin_station.mp3", "track/1.mp3">>

ScenarioA == cron_file.exists /\ FileDoc = DocA /\ cron_file' = cron_file

C5_FiresOnce ==
    /\ (ScenarioA /\ now' = now + 1 /\ IsMonday(now') /\ IsEightOClock(now')) =>
          /\ BagCardinality(fired') = 1
          /\ \A r \in BagToSet(fired') :
                r.func = "play_station_announcement" /\ r.seq = C5_Sequence
    /\ (ScenarioA /\ now' = now) => fired' = fired

\* C5: with the document of scenario A (one enabled station entry,
\* "0 8 * * 1-5", train 1 westbound to goodwin_station on track 1) the tick of
\* Monday 08:00 fires the job exactly once, also when the minute is evaluated
\* again, and the job plays chime, train/1, direction/westbound,
\* destination/goodwin_station, track/1.
C5_MondayEightOnce == [][C5_FiresOnce]_vars

SundayDocs == {Doc0, Doc7}

C6_Registered ==
    (cron_file.exists /\ FileDoc \in SundayDocs) =>
        /\ \A e \in Entries(FileDoc) : validate_cron_expression(e.item.cron).ok
        /\ LiveCount = 1

C6_FiresOnSundays ==
    (cron_file.exists /\ FileDoc \in SundayDocs /\ cron_file' = cron_file
       /\ now' = now + 1 /\ LiveCount = 1) =>
        (fired' # EmptyBag <=> (IsSunday(now') /\ IsEightOClock(now')))

\* C6: weekday 0 and weekday 7 are both accepted by the validator, the entry
\* is registered with either (never dropped), and with either the job fires at
\* exactly the ticks that fall on a Sunday.
C6_SundayZeroSeven == []C6_Registered /\ [][C6_FiresOnSundays]_vars

MidUpdate(t) == threads[t].pc = "add"

C3_TickSeesWhole ==
    TickWin =>
        \A t \in Threads :
            MidUpdate(t) =>
                \/ JobKeys(jobs) = threads[t].old
                \/ JobKeys(jobs) = JobKeys(StartJobs(threads[t].cron_data))

\* C3: in every interleaving of update_scheduler with the scheduler thread a
\* tick finds either the complete job set of the previous document or the
\* complete job set of the new one, never an empty or half rebuilt set.
C3_AtomicReplace == [][C3_TickSeesWhole]_vars

(***************************************************************************)
(* Claims about the sequence player (checked under SpecPlay).              *)
(***************************************************************************)
\* the clip lists the resolve rule gives the templates
C11_Table ==
    {[func |-> "play_station_announcement", args |-> StArgs,
      seq |-> <<"chime.mp3", "train/1.mp3", "direction/westbound.mp3",
                "destination/goodwin_station.mp3", "track/1.mp3">>],
     [func |-> "play_station_announcement", args |-> StArgs2,
      seq |-> <<"chime.mp3", "train/2.mp3", "direction/eastbound.mp3",
                "destination/goodwin_station.mp3", "track/2.mp3">>],
     [func |-> "play_promo", args |-> PromoArgs, seq |-> <<"promo/promo1.mp3">>],
     [func |-> "play_safety", args |-> SafetyArgs, seq |-> <<"safety/safety_english.mp3">>]}

\* C11: whatever was called before and whichever files exist, the clip list
\* handed to a playback thread is the one the rule gives the template: five
\* clips chime, train, direction, destination, track in that order for a
\* station template, promo/{file} for a promo, safety/safety_{language} for a
\* safety template.
C11_ResolveRule ==
    \A n \in 1..Len(playback) :
        \E r \in C11_Table :
            /\ r.func = playback[n].func
            /\ r.args = playback[n].args
            /\ r.seq = playback[n].seq

\* the second station template is resolved by the command line while clips of
\* the first are missing
C11_Witness ==
    /\ mp3_files # AllClips
    /\ \E n \in 1..Len(playback) :
          /\ playback[n].origin = "cli"
          /\ playback[n].args = StArgs2
          /\ Len(playback[n].seq) = 5

\* the clips of the list the loop has come to
Reached(th) == SubSeq(th.seq, 1, IF th.playing THEN th.i ELSE th.i - 1)

Existing(clips) == SelectSeq(clips, LAMBDA c : c \in mp3_files)

C12_Attempts ==
    \A n \in 1..Len(playback) :
        playback[n].pc = "run" => playback[n].attempts = Existing(Reached(playback[n]))

C12_OneAtATime ==
    \A n \in 1..Len(playback) :
        (Len(playback') = Len(playback) /\ playback'[n].attempts # playback[n].attempts) =>
            /\ ~playback[n].playing
            /\ playback'[n].playing
            /\ playback'[n].attempts = Append(playback[n].attempts, playback[n].seq[playback[n].i])

\* C12: the clips of a sequence whose files exist are attempted in the order
\* of the list, a clip starts only when the one before it has ended, and a
\* missing file is passed over: at every point the attempts are exactly the
\* existing clips among those the loop has come to.
C12_InOrderSkipMissing == []C12_Attempts /\ [][C12_OneAtATime]_vars

\* the third clip of the station sequence is missing and 1, 2, 4, 5 have been
\* attempted
C12_Witness ==
    /\ \E n \in 1..Len(playback) :
          /\ playback[n].seq = station_sequence(StArgs)
          /\ playback[n].i = 6
          /\ playback[n].attempts =
                <<"chime.mp3", "train/1.mp3", "destination/goodwin_station.mp3",
                  "track/1.mp3">>
    /\ "direction/westbound.mp3" \notin mp3_files

C13_NoEscape == \A n \in 1..Len(playback) : playback[n].pc # "crashed"

C13_GoesOn ==
    \A n \in 1..Len(playback) :
        (Len(playback') = Len(playback) /\ playback[n].playing /\ ~playback'[n].playing
           /\ playback[n].pc = "run") =>
            /\ playback'[n].pc = "run"
            /\ playback'[n].i = playback[n].i + 1
            /\ playback'[n].last \in {"True", "False"}

\* C13: whatever the backend does with a clip (plays it, fails, raises), no
\* exception leaves play_audio, and the loop of play_audio_sequence goes on
\* with the next clip.
C13_FailureNonFatal == []C13_NoEscape /\ [][C13_GoesOn]_vars

\* a clip has failed and a later clip of the same sequence is playing
C13_Witness ==
    \E n \in 1..Len(playback) :
        /\ playback[n].last = "False"
        /\ playback[n].playing
        /\ Len(playback[n].attempts) >= 2

C14_StartReturns ==
    Len(playback') > Len(playback) =>
        /\ \A n \in (Len(playback) + 1)..Len(playback') :
              /\ playback'[n].pc = "run"
              /\ playback'[n].i = 1
              /\ ~playback'[n].playing
              /\ playback'[n].attempts = <<>>
        /\ announced'.status = 200

\* C14: when a play_* function comes back to its caller the thread it started
\* has not finished any clip; the caller has its answer while the playback is
\* still to come.
C14_NonBlocking == [][C14_StartReturns]_vars

\* the form route has answered and the first clip is still playing
C14_Witness ==
    /\ announced.status = 200 /\ announced.path = "form"
    /\ \E n \in 1..Len(playback) :
          /\ playback[n].origin = "form"
          /\ playback[n].playing
          /\ playback[n].i = 1

\* C19: every playback thread of a station or safety announcement was started
\* by a handler that called stop_safety_announcement first.
C19_ClearedFirst ==
    \A n \in 1..Len(playback) :
        playback[n].func \in {"play_station_announcement", "play_safety"} =>
            playback[n].cleared

(***************************************************************************)
(* Claims about playback and the schedule together (checked under          *)
(* SpecSched).                                                             *)
(***************************************************************************)
\* a step of the schedule endpoint
C18_UpdateStep ==
    /\ now' = now
    /\ \/ cron_file' # cron_file \/ response' # response \/ reapplied' # reapplied
       \/ jobs' # jobs \/ crontab' # crontab

C18_Undisturbed == C18_UpdateStep => playback' = playback

\* the threads a tick starts play entries that are enabled in the document of
\* the last update
C18_TickUsesNew ==
    now' = now + 1 =>
        \A n \in (Len(playback) + 1)..Len(playback') :
            \E e \in EnabledEntries(FileDoc) :
                /\ playback'[n].func = PlayFunc(e.kind)
                /\ playback'[n].args = e.item.args

\* C18: a schedule update leaves the playback threads as they are, a thread
\* started by a job of the previous schedule goes on through its remaining
\* clips in order, and a tick starts threads only for the schedule of the
\* last update.
C18_InFlightUndisturbed ==
    []C12_Attempts /\ [][C18_Undisturbed /\ C18_TickUsesNew]_vars

\* the job of the station entry plays its third clip or a later one on win64,
\* and the schedule has been replaced by one without an enabled entry since
\* it fired
C18_Witness ==
    /\ cron_file.data = DocB /\ response.status = 200
    /\ jobs = {} /\ platform = "win64"
    /\ \E n \in 1..Len(playback) :
          /\ playback[n].origin = "job"
          /\ playback[n].pc = "run"
          /\ playback[n].i >= 3
          /\ playback[n].playing

(***************************************************************************)
(* Claims about the schedule endpoint's answer and the schedule file       *)
(* (checked under Spec).                                                   *)
(***************************************************************************)
\* the entries of a document that are enabled and pass the validator
EnabledValid(doc) ==
    {e \in Entries(doc) : e.item.enabled /\ PlatformValid(e.item.cron)}

\* C15: when the schedule endpoint has answered with success, active_jobs is
\* the number of entries of the posted document that are enabled and have a
\* valid cron expression.
C15_ActiveJobsCount ==
    response.success => response.active_jobs = Cardinality(EnabledValid(FileDoc))

(***************************************************************************)
(* Claims about the schedule file (checked under SpecStore).               *)
(***************************************************************************)
\* a step that reads the schedule file: the GET, or the update of a request
ReaderStep == ApiScheduleGet \/ \E t \in Threads : ReqUpdate(t)

Saving == \E t \in Threads : At(t, "dump")

C16_ReaderSeesWhole == (Saving /\ ReaderStep) => cron_file # Truncated

\* C16: while a request is inside save_json, a reader of the schedule file
\* (load_json of the GET, update_scheduler or update_crontab of another
\* request) finds a complete document, the previous one or the new one,
\* never an empty or partly written file.
C16_AtomicOverwrite == [][C16_ReaderSeesWhole]_vars

\* a step in which save_json raises
SaveFails ==
    \/ \E t \in Threads : \E doc \in StoreDocs : ReqOpen(t, doc, FALSE)
    \/ \E t \in Threads : ReqDump(t, FALSE)

C17_FailedSave ==
    SaveFails =>
        /\ response'.status >= 400 /\ ~response'.success
        /\ jobs' = jobs /\ crontab' = crontab
        /\ \A t \in Threads : At(t, "update") \/ threads'[t].pc # "update"

\* C17: when save_json fails the request is answered with an error and
\* without a success flag, the update does not run, and the live jobs (the
\* scheduler's jobs, the crontab) are the ones from before the call.
C17_SaveFailureLeavesJobs == [][C17_FailedSave]_vars

\* the job of scenario A is live, a later save has failed after the file was
\* opened, and the request has been answered with the error
C17_Witness ==
    /\ platform = "win64"
    /\ response = SaveFailed
    /\ cron_file = Truncated
    /\ \A t \in Threads : At(t, "idle")
    /\ jobs # {} /\ JobKeys(jobs) = JobKeys(StartJobs(DocA))

C20_GetScheduleStep ==
    (/\ ApiScheduleGet
     /\ cron_file.exists /\ FileDoc.isdict /\ FileDoc \in StoreDocs
     /\ \A t \in Threads : At(t, "idle")) =>
        /\ got'.status = 200
        /\ got'.whole
        /\ got'.doc = FileDoc

\* C20: a GET of the schedule that follows an update returns the document
\* the file holds, as a mapping with its category lists under their keys,
\* for every mapping the update endpoint has stored.
C20_GetReturnsDocument == [][C20_GetScheduleStep]_vars

C21_AbsentStep ==
    (ApiScheduleGet /\ ~cron_file.exists) =>
        /\ got'.status = 200
        /\ got'.whole
        /\ got'.doc = EmptyDoc

\* C21: with no schedule file, reading the schedule raises nothing and
\* returns the empty schedule document: a mapping with the three category
\* lists, each empty.
C21_AbsentLoadsEmptyDocument == [][C21_AbsentStep]_vars

\* a request whose every field is present and in its catalog
C22_Valid(tpl) ==
    /\ \A k \in 1..Len(tpl.args) : tpl.args[k] # ""
    /\ IF tpl.kind = "station"
       THEN /\ tpl.args[1] \in Catalog.train /\ tpl.args[2] \in Catalog.direction
            /\ tpl.args[3] \in Catalog.destination /\ tpl.args[4] \in Catalog.track
       ELSE tpl.args[1] \in Catalog[tpl.kind]

C22_Refused ==
    (\E tpl \in ApiRequests : ~C22_Valid(tpl) /\ ApiPlay(tpl)) =>
        /\ announced'.status >= 400
        /\ playback' = playback

\* C22: an API announce request with a missing field, or with a train,
\* direction, destination, track, promo file or language that is in no
\* catalog, is answered with an error and starts no playback thread.
C22_ApiValidated == [][C22_Refused]_vars

\* a POST of a whole percentage that was answered with success, then a GET
C23_RoundTrip ==
    (/\ api_audio_volume_get
     /\ volume_answer.method = "api" /\ volume_answer.status = 200
     /\ volume_answer.posted.kind = "num" /\ volume_answer.posted.n \in 0..100) =>
        volume_answer'.volume_percent = IntNum(volume_answer.posted.n)

\* a GET, then a POST of the volume_percent it returned
C23_Restore ==
    \A p \in 0..100 :
        (/\ volume_answer.method = "GET" /\ volume_answer.volume_percent = IntNum(p)
         /\ \E pactl \in PactlOutcomes : api_audio_volume_post([kind |-> "num", n |-> p], pactl)
         /\ volume_answer'.status = 200) =>
            CURRENT_VOLUME' = CURRENT_VOLUME

\* 0.0 <= CURRENT_VOLUME <= 1.0 (win64), 0 <= CURRENT_VOLUME <= 100 (deb-arm)
C23_InRange ==
    IF platform = "win64"
    THEN CURRENT_VOLUME.kind = "float" /\ ~CURRENT_VOLUME.neg /\ ~GreaterThanOne(CURRENT_VOLUME)
    ELSE CURRENT_VOLUME.kind = "int" /\ CURRENT_VOLUME.n \in 0..100

\* C23: for every whole percentage p from 0 to 100, a POST of volume = p
\* followed by a GET returns volume_percent = p; posting back the
\* volume_percent a GET returned leaves the volume unchanged; and the stored
\* volume stays within 0..100 (deb-arm) or 0.0..1.0 (win64) after every
\* request.
C23_VolumeRoundTrips == [][C23_RoundTrip /\ C23_Restore /\ C23_InRange']_vars

\* the process cron started for an entry ends
C24_ExitStep ==
    \A n \in 1..Len(playback) :
        (platform = "deb-arm" /\ ProcessExit(n)) =>
            playback[n].attempts = Existing(playback[n].seq)

\* C24: on deb-arm, when the process that cron started for a scheduled
\* announcement ends, every existing clip of the resolved sequence has been
\* attempted: the process does not exit while its playback thread still has
\* clips to play.
C24_ScheduledPlayedInFull == [][C24_ExitStep]_vars

\* every request thread has returned from api_schedule
C25_AllReturned == \A t \in Threads : At(t, "idle")

C25_InSync ==
    (C25_AllReturned /\ cron_file.exists /\ FileDoc \in {DocB, DocAll}) =>
        JobKeys(jobs) = JobKeys(StartJobs(FileDoc))

\* C25: in every interleaving of two schedule updates handled by different
\* request threads, once both have returned the live jobs are exactly the
\* jobs derived from the document the schedule file then holds: no job of the
\* other document is left over and none is missing.
C25_ConcurrentUpdatesInSync == []C25_InSync

\* a POST of a malformed document that is answered with an error
C26_RefusedStep ==
    (/\ \E body \in Bodies :
            /\ body.has_schedule /\ ~WellFormed(body.schedule)
            /\ ApiSchedulePostWin(body) \/ ApiSchedulePostArm(body)
     /\ response'.status >= 400) =>
        /\ cron_file' = cron_file
        /\ jobs' = jobs
        /\ crontab' = crontab

\* C26: a schedule update that is answered with an error because the
\* submitted document is malformed (the schedule value is a list, or a
\* category list holds an item that is no mapping) leaves the schedule file
\* and the live jobs as they were before the request.
C26_MalformedChangesNothing == [][C26_RefusedStep]_vars

\* the jobs derived from the schedule storage: none when the file is absent
C27_Derived(js, tab, file) ==
    IF platform = "win64"
    THEN JobKeys(js) = IF file.exists THEN JobKeys(StartJobs(file.data)) ELSE {}
    ELSE TarrSeq(tab) = IF file.exists THEN CronEntries(Flat(file.data), 1, <<>>).entries
                        ELSE <<>>

\* a call of update_scheduler / update_crontab that has returned
C27_UpdateStep ==
    \/ Startup
    \/ CliUpdateCron
    \/ /\ \E body \in StartBodies : ApiSchedulePostWin(body) \/ ApiSchedulePostArm(body)
       /\ response'.status = 200

\* C27: after every completed update the live jobs are the jobs derived from
\* the schedule storage as it then is; with the schedule file absent no job
\* is live after the call.
C27_LiveEqualsStorage ==
    [][C27_UpdateStep => C27_Derived(jobs', crontab', cron_file')]_vars

\* a line of the annunciator: the header or a line that names its log
IsTarrLine(txt) == HasSub(txt, "# TARR Annunciator") \/ HasSub(txt, LogName)

\* the user's own lines of a crontab, in their order
UserLines(tab) ==
    IF tab.exists THEN SelectSeq(tab.lines, LAMBDA l : ~IsTarrLine(l.txt)) ELSE <<>>

OwnLines(tab) ==
    IF tab.exists THEN SelectSeq(tab.lines, LAMBDA l : IsTarrLine(l.txt)) ELSE <<>>

\* the user's lines are the same lines in the same order, and the
\* annunciator's lines are the header and the entries of this generation
C28_Replaced(tab, tab2, file) ==
    /\ UserLines(tab2) = UserLines(tab)
    /\ OwnLines(tab2) = CronEntries(Flat(file.data), 1, <<TextLine(TarrHeader)>>).entries

\* update_crontab ran with the schedule file there
C28_UpdateStep ==
    /\ platform = "deb-arm"
    /\ cron_file'.exists
    /\ C27_UpdateStep

\* C28: an update of the crontab on deb-arm keeps every line of the user
\* that is no TARR line, comments and blank lines included, in the same
\* relative order, and leaves no TARR line of the previous generation.
C28_OnlyOwnEntriesReplaced ==
    [][C28_UpdateStep => C28_Replaced(crontab, crontab', cron_file')]_vars

\* a request that looks at the schedule or plays by hand
C29_LookStep ==
    \/ SchedulerStatus
    \/ ApiScheduleGet
    \/ \E tpl \in LookTemplates : WebPlay(tpl) \/ ApiPlay(tpl)

\* C29: scheduler_status, the read of the schedule and the manual station,
\* promo and safety triggers (forms and API) leave the persisted schedule
\* document and the live job set as they are.
C29_LookingChangesNothing ==
    [][C29_LookStep => UNCHANGED <<cron_file, jobs, crontab>>]_vars

\* a schedule with a live job has been read and a manual trigger has started
\* its playback thread
C29_Witness ==
    /\ cron_file.exists
    /\ (jobs # {} \/ TarrSeq(crontab) # <<>>)
    /\ response = scheduler_status(jobs, crontab) /\ response.active_jobs = 1
    /\ got = Got(200, load_json("cron", cron_file))
    /\ announced.status = 200
    /\ Len(playback) > 0

\* a form route that calls stop_safety_announcement is served
C30_StopStep ==
    \E tpl \in LookTemplates : CallsStop("form", tpl.kind) /\ PlayBeside("form", tpl)

\* the threads dispatched before are as they were, the new thread comes
\* after them, and the marker is what it was
C30_Undisturbed ==
    /\ current_announcement' = current_announcement
    /\ Len(playback') = Len(playback) + 1
    /\ SubSeq(playback', 1, Len(playback)) = playback

\* C30: current_announcement is None in every reachable state, and a call
\* of stop_safety_announcement changes nothing: the playbacks dispatched
\* before it go on as they were.
C30_MarkerAlwaysNone ==
    [][/\ current_announcement = None
       /\ current_announcement' = None
       /\ C30_StopStep => C30_Undisturbed]_vars

\* a form route has called stop_safety_announcement while the clip of an
\* earlier request was playing, and that clip is still playing
C30_Witness ==
    /\ Len(playback) >= 2
    /\ playback[1].playing /\ playback[1].attempts # <<>>
    /\ playback[2].cleared /\ playback[2].origin = "form"
    /\ announced = [path |-> "form", kind |-> KindOf(playback[2].func), status |-> 200]
    /\ current_announcement = None

====
